---------------------------- MODULE Spec2Model ----------------------------
(***************************************************************************)
(* A model of the Unreal Engine language server (UnrealEngineLSP.cpp):     *)
(* the engine installation detector, the version-keyed API database, the   *)
(* background header scanner, and the transport loop of LSPServer.         *)
(*                                                                         *)
(* Text is modelled as sequences of lexical tokens (a digit, a dot, the    *)
(* keyword "UE", ...), so that the regular expressions and std::stoi of    *)
(* the source are computed, not assumed.                                   *)
(***************************************************************************)
EXTENDS Integers, Sequences, FiniteSets, TLC

VARIABLES
    \* ---- detector (UnrealEngineDetector) ----
    world,          \* the install roots and environment overrides on the host
    projectDir,     \* the project directory handed to detectProjectEngineVersion
    discovered,     \* outcome of the last findAllEngineVersions call
    resolved,       \* outcome of the last detectProjectEngineVersion call
    detPc,          \* position of the detector scenario
    \* ---- API database queries (VersionSpecificAPI) ----
    qVersion,       \* the EngineVersion a query is made for
    qResult,        \* the result of the last query
    apiPc,          \* position of the query scenario
    \* ---- server (LSPServer, UnrealEngineAnalyzer, DynamicHeaderScanner) ----
    engineVersion_, \* the version the analyzer resolved
    headerTree,     \* the include directories under the engine's install path
    stdin,          \* the bytes of standard input not read yet
    loopPc,         \* position of the main thread: in run(), in a completion, ended
    endCause,       \* what ended the process
    handled,        \* the messages handleMessage was called for, and how each ended
    openFiles_,     \* LSPServer::openFiles_
    stdout,         \* the responses written
    stderr,         \* the lines logged
    dataMutex_,     \* UnrealEngineAnalyzer::dataMutex_: "free" or its holder
    current,        \* the message of the completion in progress
    scannedClasses_,\* DynamicHeaderScanner::scannedClasses_
    scanPc,         \* position of the scan thread
    scanIdx,        \* the next assignment of the scan
    \* ---- completion calls (VersionCompatibleAutoComplete, UnrealEngineAnalyzer) ----
    sInput,         \* the arguments of the calls of the scenario
    sVersion,       \* engineVersion_ of the VersionCompatibleAutoComplete
    sOrder,         \* the iteration order of unordered_set in this build
    sScanned,       \* scannedClasses_ of its DynamicHeaderScanner
    sDatabase,      \* apiDatabase_ as the completion calls leave it
    sWritten,       \* how many assignments the scan has made
    sCalls          \* the calls made, each with what it was given and returned

detVars == <<world, projectDir, discovered, resolved, detPc>>
apiVars == <<qVersion, qResult, apiPc>>
loopVars == <<stdin, loopPc, endCause, handled, openFiles_, stdout, stderr, dataMutex_, current>>
scanVars == <<scannedClasses_, scanPc, scanIdx>>
serverVars == <<engineVersion_, headerTree, loopVars, scanVars>>

synthVars == <<sInput, sVersion, sOrder, sScanned, sDatabase, sWritten, sCalls>>

vars == <<detVars, apiVars, serverVars, synthVars>>

-----------------------------------------------------------------------------
(* Generic helpers *)

RECURSIVE SeqToSet(_)
SeqToSet(s) == IF s = <<>> THEN {} ELSE {Head(s)} \cup SeqToSet(Tail(s))

RECURSIVE Concat(_)
Concat(ss) == IF ss = <<>> THEN <<>> ELSE Head(ss) \o Concat(Tail(ss))

\* all sequences over S of length 0..n
SeqsUpTo(S, n) == UNION {[1..k -> S] : k \in 0..n}

-----------------------------------------------------------------------------
(* EngineVersion, UnrealEngineLSP.hpp *)

\* 2^31 - 1, the largest value std::stoi returns
INT_MAX == 2147483647

EngineVersionOf(ma, mi, pa, path) ==
    [major |-> ma, minor |-> mi, patch |-> pa, installPath |-> path]

isUE5(v) == v.major >= 5
isUE4(v) == v.major = 4

\* operator<
VersionLess(a, b) ==
    IF a.major # b.major THEN a.major < b.major
    ELSE IF a.minor # b.minor THEN a.minor < b.minor
    ELSE a.patch < b.patch

\* operator>=
VersionGeq(a, b) == ~VersionLess(a, b)

\* operator==
VersionEq(a, b) == a.major = b.major /\ a.minor = b.minor /\ a.patch = b.patch

-----------------------------------------------------------------------------
(* VersionSpecificAPI: the version-keyed API database *)

IncCore == "Engine/Source/Runtime/Core/Public"
IncCoreUObject == "Engine/Source/Runtime/CoreUObject/Public"
IncEngine == "Engine/Source/Runtime/Engine/Public"
IncEngineClasses == "Engine/Source/Runtime/Engine/Classes"
IncUMG == "Engine/Source/Runtime/UMG/Public"

\* apiDatabase_["4.27"]
Db427 ==
    [classes |->
        [AActor |-> <<"BeginPlay", "EndPlay", "Tick", "GetActorLocation", "SetActorLocation",
                      "GetWorld", "Destroy", "GetComponents", "GetRootComponent">>,
         APawn |-> <<"PossessedBy", "UnPossessed", "GetController", "SetupPlayerInputComponent",
                     "GetMovementComponent", "AddMovementInput", "AddControllerYawInput">>,
         ACharacter |-> <<"Jump", "StopJumping", "CanJump", "GetCharacterMovement",
                          "LaunchCharacter">>,
         UObject |-> <<"GetName", "GetClass", "IsA", "GetOuter", "GetWorld",
                       "ConditionalBeginDestroy">>,
         UActorComponent |-> <<"BeginPlay", "EndPlay", "TickComponent", "Activate",
                               "Deactivate", "IsActive">>],
     macros |->
        [UCLASS |-> "UCLASS(BlueprintType, Blueprintable)\nclass GAME_API AClassName : public AActor\n{\n\tGENERATED_UCLASS_BODY()\n\npublic:\n\tvirtual void BeginPlay() override;\n\tvirtual void Tick(float DeltaTime) override;\n};",
         USTRUCT |-> "USTRUCT(BlueprintType)\nstruct FStructName\n{\n\tGENERATED_USTRUCT_BODY()\n\n\tUPROPERTY(EditAnywhere, BlueprintReadWrite)\n\tint32 Value;\n};",
         UFUNCTION |-> "UFUNCTION(BlueprintCallable, Category = \"Gameplay\")\nvoid FunctionName();",
         UPROPERTY |-> "UPROPERTY(EditAnywhere, BlueprintReadWrite, Category = \"Properties\")\nfloat PropertyName;"],
     includePaths |-> <<IncCore, IncCoreUObject, IncEngine>>]

\* apiDatabase_["5.0"]
Db50 ==
    [classes |->
        [AActor |-> <<"BeginPlay", "EndPlay", "Tick", "GetActorLocation", "SetActorLocation",
                      "GetWorld", "GetActorTransform", "SetActorTransform", "Destroy",
                      "GetComponents", "GetRootComponent", "FindComponentByClass">>,
         APawn |-> <<"PossessedBy", "UnPossessed", "GetController", "SetupPlayerInputComponent",
                     "AddMovementInput", "GetMovementComponent", "AddControllerYawInput",
                     "AddControllerPitchInput">>,
         ACharacter |-> <<"Jump", "StopJumping", "CanJump", "GetCharacterMovement",
                          "LaunchCharacter", "Crouch", "UnCrouch", "CanCrouch">>,
         UObject |-> <<"GetName", "GetClass", "IsA", "GetOuter", "GetWorld", "GetTypedOuter",
                       "ConditionalBeginDestroy", "MarkAsGarbage">>,
         UActorComponent |-> <<"BeginPlay", "EndPlay", "TickComponent", "Activate",
                               "Deactivate", "IsActive", "RegisterComponent",
                               "UnregisterComponent">>],
     macros |->
        [UCLASS |-> "UCLASS(BlueprintType, Blueprintable)\nclass GAME_API AClassName : public AActor\n{\n\tGENERATED_BODY()\n\npublic:\n\tAClassName();\n\nprotected:\n\tvirtual void BeginPlay() override;\n\npublic:\n\tvirtual void Tick(float DeltaTime) override;\n};",
         USTRUCT |-> "USTRUCT(BlueprintType)\nstruct FStructName\n{\n\tGENERATED_BODY()\n\n\tUPROPERTY(EditAnywhere, BlueprintReadWrite)\n\tint32 Value = 0;\n};",
         UFUNCTION |-> "UFUNCTION(BlueprintCallable, Category = \"Gameplay\")\nvoid FunctionName();",
         UPROPERTY |-> "UPROPERTY(EditAnywhere, BlueprintReadWrite, Category = \"Properties\")\nfloat PropertyName = 0.0f;",
         UENUM |-> "UENUM(BlueprintType)\nenum class EEnumName : uint8\n{\n\tNone UMETA(DisplayName = \"None\"),\n\tFirst UMETA(DisplayName = \"First\"),\n\tSecond UMETA(DisplayName = \"Second\")\n};"],
     includePaths |-> <<IncCore, IncCoreUObject, IncEngine, IncEngineClasses>>]

\* a "5.1" copied from "4.27" instead of "5.0"; not what the code builds
Db51From427 ==
    [Db427 EXCEPT !.classes.AActor =
        Append(Append(@, "GetActorNameOrLabel"), "SetActorLabel")]

\* apiDatabase_["5.1"] = apiDatabase_["5.0"], then two push_back
Db51 ==
    [Db50 EXCEPT !.classes.AActor =
        Append(Append(@, "GetActorNameOrLabel"), "SetActorLabel")]

\* apiDatabase_["5.2"] = apiDatabase_["5.1"], then one include path
Db52 == [Db51 EXCEPT !.includePaths = Append(@, IncUMG)]

\* apiDatabase_["5.3"] = apiDatabase_["5.2"], then one method
Db53 == [Db52 EXCEPT !.classes.AActor = Append(@, "GetActorGuid")]

Db54 == Db53

Db55 == Db54

\* the map built by initializeAPIDatabase
apiDatabase_ ==
    [k \in {"4.27", "5.0", "5.1", "5.2", "5.3", "5.4", "5.5"} |->
        CASE k = "4.27" -> Db427
          [] k = "5.0" -> Db50
          [] k = "5.1" -> Db51
          [] k = "5.2" -> Db52
          [] k = "5.3" -> Db53
          [] k = "5.4" -> Db54
          [] OTHER -> Db55]

\* a key chosen by equality of the minor, with the default for every other
\* minor; not what the code does
getVersionKeyByEquality(version) ==
    IF isUE4(version) THEN "4.27"
    ELSE IF version.major = 5 /\ version.minor \in 0..5
    THEN <<"5.0", "5.1", "5.2", "5.3", "5.4", "5.5">>[version.minor + 1]
    ELSE "5.3"

\* a key made of the minor asked for above the newest bucket; not what the
\* code does
getVersionKeyUnclamped(version) ==
    IF isUE4(version) THEN "4.27"
    ELSE IF version.major = 5 /\ version.minor > 5 THEN "5.6"
    ELSE IF version.major = 5 /\ version.minor >= 0
    THEN <<"5.0", "5.1", "5.2", "5.3", "5.4", "5.5">>[version.minor + 1]
    ELSE IF version.major = 5 THEN "5.0"
    ELSE "5.3"

\* VersionSpecificAPI::getVersionKey (lines 386-399)
getVersionKey(version) ==
    IF isUE4(version) THEN "4.27"
    ELSE IF version.major = 5 THEN
        IF version.minor >= 5 THEN "5.5"
        ELSE IF version.minor >= 4 THEN "5.4"
        ELSE IF version.minor >= 3 THEN "5.3"
        ELSE IF version.minor >= 2 THEN "5.2"
        ELSE IF version.minor >= 1 THEN "5.1"
        ELSE "5.0"
    ELSE "5.3"

getDefaultClassMethods(className) ==
    IF className = "AActor" THEN
        <<"BeginPlay", "EndPlay", "Tick", "GetActorLocation", "SetActorLocation">>
    ELSE IF className = "UObject" THEN <<"GetName", "GetClass", "IsA">>
    ELSE IF className = "APawn" THEN <<"PossessedBy", "UnPossessed", "GetController">>
    ELSE IF className = "ACharacter" THEN <<"Jump", "StopJumping", "GetCharacterMovement">>
    ELSE <<>>

getClassMethods(className, version) ==
    LET versionKey == getVersionKey(version) IN
    IF /\ versionKey \in DOMAIN apiDatabase_
       /\ className \in DOMAIN apiDatabase_[versionKey].classes
    THEN apiDatabase_[versionKey].classes[className]
    ELSE getDefaultClassMethods(className)

getDefaultMacroTemplate(macroName, version) ==
    IF macroName = "UCLASS" THEN
        IF isUE4(version)
        THEN "UCLASS(BlueprintType, Blueprintable)\nclass GAME_API AClassName : public AActor\n{\n\tGENERATED_UCLASS_BODY()\n\n};"
        ELSE "UCLASS(BlueprintType, Blueprintable)\nclass GAME_API AClassName : public AActor\n{\n\tGENERATED_BODY()\n\npublic:\n\tAClassName();\n\n};"
    ELSE IF macroName = "USTRUCT" THEN
        IF isUE4(version)
        THEN "USTRUCT(BlueprintType)\nstruct FStructName\n{\n\tGENERATED_USTRUCT_BODY()\n};"
        ELSE "USTRUCT(BlueprintType)\nstruct FStructName\n{\n\tGENERATED_BODY()\n};"
    ELSE IF macroName = "UFUNCTION" THEN
        "UFUNCTION(BlueprintCallable, Category = \"Gameplay\")\nvoid FunctionName();"
    ELSE IF macroName = "UPROPERTY" THEN
        "UPROPERTY(EditAnywhere, BlueprintReadWrite, Category = \"Properties\")\nfloat PropertyName;"
    ELSE ""

getMacroTemplate(macroName, version) ==
    LET versionKey == getVersionKey(version) IN
    IF /\ versionKey \in DOMAIN apiDatabase_
       /\ macroName \in DOMAIN apiDatabase_[versionKey].macros
    THEN apiDatabase_[versionKey].macros[macroName]
    ELSE getDefaultMacroTemplate(macroName, version)

getDefaultIncludePaths(version) ==
    LET base == <<IncCore, IncCoreUObject, IncEngine>> IN
    IF isUE5(version) THEN
        IF version.minor >= 2
        THEN Append(Append(base, IncEngineClasses), IncUMG)
        ELSE Append(base, IncEngineClasses)
    ELSE base

getIncludePaths(version) ==
    LET versionKey == getVersionKey(version) IN
    IF versionKey \in DOMAIN apiDatabase_
    THEN apiDatabase_[versionKey].includePaths
    ELSE getDefaultIncludePaths(version)

-----------------------------------------------------------------------------
(* Text: token sequences, std::stoi and the two version patterns *)

Digits == {"0", "1", "2", "3", "4", "5", "6", "7", "8", "9"}

DigitVal(c) ==
    CASE c = "0" -> 0 [] c = "1" -> 1 [] c = "2" -> 2 [] c = "3" -> 3 [] c = "4" -> 4
      [] c = "5" -> 5 [] c = "6" -> 6 [] c = "7" -> 7 [] c = "8" -> 8 [] OTHER -> 9

\* one digit more: -1 once the value does not fit an int
StoiStep(acc, d) ==
    IF acc = -1 \/ acc > (INT_MAX - d) \div 10 THEN -1 ELSE acc * 10 + d

RECURSIVE StoiFrom(_, _)
StoiFrom(acc, ds) ==
    IF ds = <<>> THEN acc ELSE StoiFrom(StoiStep(acc, DigitVal(Head(ds))), Tail(ds))

\* the value std::stoi gives a run of digits, or -1 where it throws
\* std::out_of_range (the value does not fit an int)
stoi(ds) == StoiFrom(0, ds)

Min(S) == CHOOSE i \in S : \A k \in S : i <= k

\* the last position of the run of digits that starts at i
DigitRunEnd(s, i) ==
    CHOOSE j \in i..Len(s) :
        /\ \A k \in i..j : s[k] \in Digits
        /\ j = Len(s) \/ s[j + 1] \notin Digits

\* whether a dot and a digit follow position j
DotDigitAfter(s, j) == j + 2 <= Len(s) /\ s[j + 1] = "." /\ s[j + 2] \in Digits

\* (\d+)\.(\d+)(?:\.(\d+))? matched with its first character at position i:
\* the first run of digits is taken whole, a dot and a digit must follow
VersionPatternAt(s, i) ==
    /\ i >= 1 /\ i <= Len(s) /\ s[i] \in Digits
    /\ DotDigitAfter(s, DigitRunEnd(s, i))

\* group 3 of a match whose second run of digits ends at k; <<>> when the
\* optional part does not match
Group3(s, k) ==
    IF DotDigitAfter(s, k) THEN SubSeq(s, k + 2, DigitRunEnd(s, k + 2)) ELSE <<>>

\* groups 2 and 3 of a match whose first run of digits ends at j
Groups23(s, g1, j, k) == [g1 |-> g1, g2 |-> SubSeq(s, j + 2, k), g3 |-> Group3(s, k)]

GroupsAfter(s, i, j) == Groups23(s, SubSeq(s, i, j), j, DigitRunEnd(s, j + 2))

\* the three capture groups of a match at i
VersionGroups(s, i) == GroupsAfter(s, i, DigitRunEnd(s, i))

\* std::regex_search with the pattern of parseEngineAssociation (line 199):
\* the leftmost match position, or 0
FirstOrZero(hits) == IF hits = {} THEN 0 ELSE Min(hits)

AssocSearch(s) == FirstOrZero({i \in 1..Len(s) : VersionPatternAt(s, i)})

\* the words the path pattern accepts before the number, case-insensitively
UEWords == {"UE", "ue", "Ue", "UnrealEngine", "unrealengine"}

\* where the number starts when (?:UE[_-]?|UnrealEngine[_-]?) matches at i and
\* the version pattern follows, or 0
PathPatternAt(s, i) ==
    IF i >= 1 /\ i <= Len(s) /\ s[i] \in UEWords THEN
        IF i + 1 <= Len(s) /\ s[i + 1] \in {"_", "-"}
        THEN (IF VersionPatternAt(s, i + 2) THEN i + 2 ELSE 0)
        ELSE (IF VersionPatternAt(s, i + 1) THEN i + 1 ELSE 0)
    ELSE 0

\* std::regex_search with the pattern of detectEngineVersion (lines 182-187):
\* the position of the number in the leftmost match, or 0
PathSearch(s) == FirstOrZero({PathPatternAt(s, i) : i \in 1..Len(s)} \ {0})

Parsed(ma, mi, pa) ==
    [ok |-> ma # -1 /\ mi # -1 /\ pa # -1, major |-> ma, minor |-> mi, patch |-> pa]

\* the three std::stoi calls on the groups of a match; ok is FALSE where one
\* of them throws
ParsedGroups(g) == Parsed(stoi(g.g1), stoi(g.g2), IF g.g3 = <<>> THEN 0 ELSE stoi(g.g3))

\* the numbers of a match whose digits start at position p
ParsedVersion(s, p) == ParsedGroups(VersionGroups(s, p))

-----------------------------------------------------------------------------
(* UnrealEngineDetector *)

\* A number field of Build.version: an integer, absent, or of another type
IntField(n) == [k |-> "int", v |-> n]
AbsentField == [k |-> "absent", v |-> 0]
BadField == [k |-> "bad", v |-> 0]

\* buildData.value(key, 0) for a field that does not throw
FieldValue(f) == IF f.k = "int" THEN f.v ELSE 0

NoBuildFile ==
    [present |-> FALSE, parsable |-> FALSE,
     major |-> AbsentField, minor |-> AbsentField, patch |-> AbsentField]

BuildFile(ma, mi, pa) ==
    [present |-> TRUE, parsable |-> TRUE, major |-> ma, minor |-> mi, patch |-> pa]

UnparsableBuildFile == [NoBuildFile EXCEPT !.present = TRUE]

\* A directory that may be an engine: its path, whether <path>/Engine exists
\* ("yes", "no", or "error" where fs::exists throws), and its Build.version
Candidate(path, engine, build) == [path |-> path, engine |-> engine, build |-> build]

Detected(kind, v) == [kind |-> kind, v |-> v]

\* whether Build.version is read to the end (lines 163-175)
BuildFileReads(b) ==
    /\ b.present /\ b.parsable
    /\ b.major.k # "bad" /\ b.minor.k # "bad" /\ b.patch.k # "bad"

\* the values left in `version` when reading Build.version ends in the catch
\* block (line 176): the fields assigned before the throw
AfterFailedBuildFile(c) ==
    EngineVersionOf(
        IF c.build.present /\ c.build.parsable /\ c.build.major.k # "bad"
            THEN FieldValue(c.build.major) ELSE 0,
        IF c.build.present /\ c.build.parsable /\ c.build.major.k # "bad"
              /\ c.build.minor.k # "bad"
            THEN FieldValue(c.build.minor) ELSE 0,
        0, c.path)

\* lines 188-192: the numbers of the path, once the pattern has matched
VersionFromMatch(c, n) ==
    IF ~n.ok THEN Detected("otherError", EngineVersionOf(0, 0, 0, c.path))
    ELSE Detected("ok", EngineVersionOf(n.major, n.minor, n.patch, c.path))

\* lines 181-195: the version taken from the path; p is where the pattern
\* matched, 0 where it did not
VersionFromPath(c, p) ==
    IF p = 0 THEN Detected("ok", AfterFailedBuildFile(c))
    ELSE VersionFromMatch(c, ParsedVersion(c.path, p))

\* detectEngineVersion: kind "ok" with the version returned, "fsError" where a
\* fs::filesystem_error leaves the function, "otherError" where std::stoi throws
detectEngineVersion(c) ==
    IF c.engine = "error" THEN Detected("fsError", EngineVersionOf(0, 0, 0, c.path))
    ELSE IF c.engine = "no" THEN Detected("ok", EngineVersionOf(0, 0, 0, c.path))
    ELSE IF BuildFileReads(c.build)
    THEN Detected("ok", EngineVersionOf(FieldValue(c.build.major), FieldValue(c.build.minor),
                                        FieldValue(c.build.patch), c.path))
    ELSE VersionFromPath(c, PathSearch(c.path))

\* An entry of an install root, as fs::directory_iterator yields it: isDir is
\* "yes", "no", or "error" where entry.is_directory() throws
DirEntry(isDir, cand) == [isDir |-> isDir, cand |-> cand]

\* An install root of commonInstallPaths_: exists is "yes", "no", or "error"
\* where fs::exists(basePath) throws; listable is FALSE where the
\* directory_iterator cannot be opened
Root(exists, self, listable, entries) ==
    [exists |-> exists, self |-> self, listable |-> listable, entries |-> entries]

\* `if (version.major > 0) versions.push_back(version)` for a call that returned
Pushable(d) == d.kind = "ok" /\ d.v.major > 0

\* the entries the loop of lines 66-78 visits: those before the first one
\* whose is_directory() throws
VisitedEntries(entries) ==
    SubSeq(entries, 1,
           FirstOrZero({i \in 1..Len(entries) : entries[i].isDir = "error"} \cup {Len(entries) + 1}) - 1)

\* the loop over the subdirectories of one root (lines 66-78): the versions
\* pushed; an exception of detectEngineVersion skips the one entry
ScanEntries(entries) ==
    SelectSeq([i \in 1..Len(VisitedEntries(entries)) |->
                  IF entries[i].isDir = "yes" THEN detectEngineVersion(entries[i].cand)
                  ELSE Detected("notDir", EngineVersionOf(0, 0, 0, <<>>))],
              Pushable)

Versions(ds) == [i \in 1..Len(ds) |-> ds[i].v]

Pushed(thrown, versions) == [thrown |-> thrown, versions |-> versions]

\* lines 57-82 for a root that exists; d is what detectEngineVersion(basePath)
\* gives
ScanExistingRoot(r, d) ==
    IF d.kind = "otherError" THEN Pushed(TRUE, <<>>)
    ELSE IF d.kind = "fsError" THEN Pushed(FALSE, <<>>)
    ELSE IF d.v.major > 0 THEN Pushed(FALSE, <<d.v>>)
    ELSE IF ~r.listable THEN Pushed(FALSE, <<>>)
    ELSE Pushed(FALSE, Versions(ScanEntries(r.entries)))

\* the body of the loop over commonInstallPaths_ for one root (lines 55-82):
\* the versions pushed, and whether an exception leaves findAllEngineVersions
ScanRoot(r) ==
    IF r.exists = "no" THEN Pushed(FALSE, <<>>)
    ELSE IF r.exists = "error" THEN Pushed(TRUE, <<>>)
    ELSE ScanExistingRoot(r, detectEngineVersion(r.self))

MergeRoots(each) ==
    IF \E i \in 1..Len(each) : each[i].thrown THEN Pushed(TRUE, <<>>)
    ELSE Pushed(FALSE, Concat([i \in 1..Len(each) |-> each[i].versions]))

\* the loop over commonInstallPaths_ (lines 54-83): it ends at the first
\* root whose exception leaves the function
ScanRoots(roots) == MergeRoots([i \in 1..Len(roots) |-> ScanRoot(roots[i])])

\* the environment overrides (lines 86-109): env is the sequence of the
\* candidates the set variables UE_ROOT, UE4_ROOT, UE5_ROOT and
\* UNREAL_ENGINE_ROOT name, in that order; every exception is caught
ScanEnv(env) ==
    Versions(SelectSeq([i \in 1..Len(env) |-> detectEngineVersion(env[i])], Pushable))

AddEnv(r, w) == IF r.thrown THEN r ELSE Pushed(FALSE, r.versions \o ScanEnv(w.env))

\* the versions pushed before the sort (lines 52-109)
PushedVersions(w) == AddEnv(ScanRoots(w.roots), w)

RemoveAt(vs, i) == SubSeq(vs, 1, i - 1) \o SubSeq(vs, i + 1, Len(vs))

\* a sort with the comparison a < b, the opposite of the one the code makes
RECURSIVE SortedAscending(_)
SortedAscending(vs) ==
    IF vs = <<>> THEN {<<>>}
    ELSE UNION {{<<vs[i]>> \o t : t \in SortedAscending(RemoveAt(vs, i))} :
                i \in {k \in 1..Len(vs) : \A j \in 1..Len(vs) : ~VersionLess(vs[j], vs[k])}}

\* std::sort with the comparison b < a (lines 112-115). std::sort is not
\* stable: every arrangement in which no element is followed by a greater one
\* is a possible result. Built front to back: any element that no other
\* exceeds may come first.
RECURSIVE SortedDescending(_)
SortedDescending(vs) ==
    IF vs = <<>> THEN {<<>>}
    ELSE UNION {{<<vs[i]>> \o t : t \in SortedDescending(RemoveAt(vs, i))} :
                i \in {k \in 1..Len(vs) : \A j \in 1..Len(vs) : ~VersionLess(vs[k], vs[j])}}

KeepAt(vs, kept) == [k \in 1..Len(kept) |-> vs[kept[k]]]

\* std::unique with operator== followed by erase (lines 117-120): of each run
\* of equal neighbours the first is kept (operator== is an equivalence, so an
\* element is erased exactly when it equals its predecessor)
Unique(vs) ==
    KeepAt(vs, SelectSeq([i \in 1..Len(vs) |-> i],
                         LAMBDA i : i = 1 \/ ~VersionEq(vs[i - 1], vs[i])))

Found(kind, versions) == [kind |-> kind, versions |-> versions]

\* lines 111-122: the outcomes of the sort and the erase
SortAndErase(pushed) ==
    IF pushed.thrown THEN {Found("throws", <<>>)}
    ELSE {Found("ok", Unique(s)) : s \in SortedDescending(pushed.versions)}

\* findAllEngineVersions: the outcomes one call can have, "ok" with the
\* sequence returned or "throws"
findAllEngineVersions(w) == SortAndErase(PushedVersions(w))

\* A file of the project directory: whether its extension is .uproject, and
\* what json::parse and the EngineAssociation lookup give: assoc is
\* "unparsable" (json::parse throws, also for a file that cannot be read),
\* "absent", "notString", or "string" with the text in `text`
ProjectFile(isUProject, assoc, text) ==
    [isUProject |-> isUProject, assoc |-> assoc, text |-> text]

\* The project directory: listable is FALSE where fs::directory_iterator
\* throws (missing or unreadable path)
ProjectDir(listable, files) == [listable |-> listable, files |-> files]

Resolved(kind, v) == [kind |-> kind, v |-> v]

\* a default of the oldest generation, which the code does not use
DefaultVersionUE4 == EngineVersionOf(4, 27, 0, <<>>)

\* the fixed default, EngineVersion{5, 3, 0, "5.3.0", ""}
DefaultVersion == EngineVersionOf(5, 3, 0, <<>>)

\* the path of the newest discovered version, whatever its major and minor;
\* not what the code copies
NewestInstallPath(allVersions, ma, mi) ==
    IF allVersions = <<>> THEN <<>> ELSE Head(allVersions).installPath

\* the install path parseEngineAssociation copies (lines 211-216): that of the
\* first discovered version with the same major and minor, or none
RECURSIVE MatchingInstallPath(_, _, _)
MatchingInstallPath(allVersions, ma, mi) ==
    IF allVersions = <<>> THEN <<>>
    ELSE IF Head(allVersions).major = ma /\ Head(allVersions).minor = mi
    THEN Head(allVersions).installPath
    ELSE MatchingInstallPath(Tail(allVersions), ma, mi)

\* lines 203-218: the declared version n with the install path looked up in
\* what findAllEngineVersions gives
DeclaredVersion(n, w) ==
    IF ~n.ok THEN {Resolved("throws", DefaultVersion)}
    ELSE {IF f.kind = "throws" THEN Resolved("throws", DefaultVersion)
          ELSE Resolved("ok", EngineVersionOf(n.major, n.minor, n.patch,
                   MatchingInstallPath(f.versions, n.major, n.minor)))
          : f \in findAllEngineVersions(w)}

\* lines 202-221, p being where the pattern matched, 0 where it did not
AssociationAt(engineAssoc, p, w) ==
    IF p = 0 THEN {Resolved("ok", DefaultVersion)}
    ELSE DeclaredVersion(ParsedVersion(engineAssoc, p), w)

\* parseEngineAssociation: the outcomes of one call
parseEngineAssociation(engineAssoc, w) ==
    AssociationAt(engineAssoc, AssocSearch(engineAssoc), w)

\* lines 148-150 of detectProjectEngineVersion: the newest discovered version,
\* or the fixed default
FallbackVersion(w) ==
    {IF f.kind = "throws" THEN Resolved("throws", DefaultVersion)
     ELSE IF f.versions = <<>> THEN Resolved("ok", DefaultVersion)
     ELSE Resolved("ok", f.versions[1])
     : f \in findAllEngineVersions(w)}

Skip == Resolved("skip", DefaultVersion)

\* the outcomes of the loop body (lines 128-142) for one file: Skip where the
\* file is passed over or an exception is caught, "ok" where
\* parseEngineAssociation returns and the function returns its value
FileOutcomes(f, w) ==
    IF ~f.isUProject \/ f.assoc # "string" THEN {Skip}
    ELSE {IF r.kind = "throws" THEN Skip ELSE r : r \in parseEngineAssociation(f.text, w)}

\* the value of the first file whose body returns, reached when every file
\* before it was skipped; the fallback when all were
FirstReturn(out, w) ==
    UNION {{r \in out[i] : r.kind = "ok" /\ \A j \in 1..(i - 1) : Skip \in out[j]} :
           i \in 1..Len(out)}
    \cup (IF \A j \in 1..Len(out) : Skip \in out[j] THEN FallbackVersion(w) ELSE {})

\* the loop over the files of the project directory (lines 127-143), then the
\* fallback
ScanProjectFiles(files, w) ==
    FirstReturn([i \in 1..Len(files) |-> FileOutcomes(files[i], w)], w)

\* detectProjectEngineVersion: the outcomes of one call; a directory that
\* cannot be listed is left by the catch of line 144 before any file is seen
detectProjectEngineVersion(dir, w) ==
    ScanProjectFiles(IF dir.listable THEN dir.files ELSE <<>>, w)

-----------------------------------------------------------------------------
(* JSON values (nlohmann::json) as the handlers of LSPServer use them *)

JNull == [k |-> "null"]
JNum(n) == [k |-> "number", n |-> n]
\* an integer that does not fit an int: hi * 2^32 + n, hi not 0
JBig(hi, n) == [k |-> "number", n |-> n, hi |-> hi]
JStr(s) == [k |-> "string", s |-> s]
JArr(a) == [k |-> "array", a |-> a]
JObj(o) == [k |-> "object", o |-> o]

\* json::object()
EmptyObject == JObj(<<>>)

\* The result of evaluating an expression: "ok" with the value, "throws"
\* where a std::exception leaves it, "abort" where the process ends in it
Ok(v) == [st |-> "ok", val |-> v]
Throws == [st |-> "throws", val |-> JNull]
Aborts == [st |-> "abort", val |-> JNull]

\* What an access outside the contract of the library gives. operator[] of a
\* const json with a key the object does not hold is guarded by an assertion
\* only: a build with assertions ends the process, a build without them
\* reads past the end of the map and continues with whatever is found there.
Undefined == {Aborts, Ok(JNull), Ok(JStr("?")), Ok(JNum(0)), Ok(EmptyObject)}

\* const operator[](key): type_error 305 for a value that is no object
ConstAt(j, key, u) ==
    IF j.k # "object" THEN Throws
    ELSE IF key \in DOMAIN j.o THEN Ok(j.o[key])
    ELSE u

\* r[key] for the result r of the expression before it
At(r, key, u) == IF r.st # "ok" THEN r ELSE ConstAt(r.val, key, u)

\* operator[](key) of a json that is not const: null becomes an object, an
\* absent key is inserted with the value null
MutableAt(r, key) ==
    IF r.st # "ok" THEN r
    ELSE IF r.val.k = "null" THEN Ok(JNull)
    ELSE IF r.val.k # "object" THEN Throws
    ELSE IF key \in DOMAIN r.val.o THEN Ok(r.val.o[key])
    ELSE Ok(JNull)

\* operator[](0) of a json that is not const: null becomes an array, an
\* array too short is filled with null
MutableFirst(r) ==
    IF r.st # "ok" THEN r
    ELSE IF r.val.k = "null" THEN Ok(JNull)
    ELSE IF r.val.k # "array" THEN Throws
    ELSE IF r.val.a = <<>> THEN Ok(JNull)
    ELSE Ok(r.val.a[1])

\* the conversion to std::string: type_error 302 for any other type
AsString(r) ==
    IF r.st # "ok" THEN r ELSE IF r.val.k = "string" THEN r ELSE Throws

\* the conversion to int: type_error 302 for a value that is no number; a
\* number is converted by static_cast<int>, which keeps the low 32 bits of
\* an integer that does not fit
AsInt(r) ==
    IF r.st # "ok" THEN r
    ELSE IF r.val.k # "number" THEN Throws
    ELSE IF "hi" \in DOMAIN r.val THEN Ok(JNum(r.val.n))
    ELSE r

\* json::value(key, default): the member, or the default where it is absent;
\* type_error 306 for a value that is no object
ValueOr(j, key, default) ==
    IF j.k # "object" THEN Throws
    ELSE IF key \in DOMAIN j.o THEN Ok(j.o[key])
    ELSE Ok(default)

\* json::empty(): null and empty containers
IsEmpty(j) ==
    \/ j.k = "null"
    \/ j.k = "array" /\ j.a = <<>>
    \/ j.k = "object" /\ DOMAIN j.o = {}

\* the first of the results that is not "ok", or the last of them
FirstFailure(rs) ==
    IF \E i \in 1..Len(rs) : rs[i].st # "ok"
    THEN rs[Min({i \in 1..Len(rs) : rs[i].st # "ok"})]
    ELSE rs[Len(rs)]

-----------------------------------------------------------------------------
(* The byte stream of standard input, as tokens *)

\* A token of the stream: its class and its text. Every token is one byte
\* wide but the keyword, which is the 15 bytes of "Content-Length:". A JSON
\* text is written as two tokens, the halves "open" and "close" of the
\* message named by v.
Tok(c, v) == [c |-> c, v |-> v]

Keyword == Tok("kw", "Content-Length:")
Space == Tok("sp", " ")
CR == Tok("cr", "\r")
LF == Tok("lf", "\n")
Minus == Tok("sign", "-")
Letter == Tok("letter", "x")
NUL == Tok("nul", "")
Digit(d) == Tok("digit", d)

Width(t) == IF t.c = "kw" THEN 15 ELSE 1

\* the position of the first line feed, or 0
FirstLF(in) == FirstOrZero({i \in 1..Len(in) : in[i].c = "lf"})

\* std::getline: the line without its line feed and the rest of the stream;
\* at the end of the stream a last line without line feed is still a line,
\* and an empty stream gives none (ok is FALSE)
LineAt(in, n) ==
    IF n = 0 THEN [ok |-> in # <<>>, line |-> in, rest |-> <<>>]
    ELSE [ok |-> TRUE, line |-> SubSeq(in, 1, n - 1), rest |-> SubSeq(in, n + 1, Len(in))]

getline(in) == LineAt(in, FirstLF(in))

\* line.find("Content-Length:") == 0
IsHeaderLine(line) == line # <<>> /\ line[1] = Keyword

Whitespace == {"sp", "cr", "lf"}

\* the text std::stoi converts: leading whitespace skipped
SkipWhitespace(text) ==
    SubSeq(text, FirstOrZero({i \in 1..Len(text) : text[i].c \notin Whitespace}
                             \cup {Len(text) + 1}), Len(text))

\* the digits at the front of the text
LeadingDigits(text) ==
    [i \in 1..(FirstOrZero({i \in 1..Len(text) : text[i].c # "digit"} \cup {Len(text) + 1}) - 1)
        |-> text[i].v]

Number(st, n) == [st |-> st, n |-> n]

\* the value of a run of digits, negated after a minus sign
SignedValue(digits, negative) ==
    IF digits = <<>> THEN Number("invalid_argument", 0)
    ELSE IF stoi(digits) = -1 THEN Number("out_of_range", 0)
    ELSE Number("ok", IF negative THEN 0 - stoi(digits) ELSE stoi(digits))

StoiAfterWhitespace(text) ==
    IF text # <<>> /\ text[1].c = "sign"
    THEN SignedValue(LeadingDigits(Tail(text)), TRUE)
    ELSE SignedValue(LeadingDigits(text), FALSE)

\* std::stoi on text: std::invalid_argument where no digit is found,
\* std::out_of_range where the value does not fit an int; what follows
\* the digits is ignored
stoiText(text) == StoiAfterWhitespace(SkipWhitespace(text))

\* line.substr(16): what follows the first 16 bytes of a header line, the
\* keyword and one byte more; std::out_of_range where the line has 15 bytes
HeaderLength(line) ==
    IF Len(line) < 2 THEN Number("out_of_range", 0)
    ELSE IF line[2].c = "kw" THEN Number("invalid_argument", 0)
    ELSE stoiText(SubSeq(line, 3, Len(line)))

RECURSIVE Bytes(_)
\* the bytes of a run of tokens: the keyword is 15 letters
Bytes(toks) ==
    IF toks = <<>> THEN <<>>
    ELSE (IF Head(toks).c = "kw" THEN [i \in 1..Width(Keyword) |-> Letter] ELSE <<Head(toks)>>)
         \o Bytes(Tail(toks))

RECURSIVE TotalWidth(_)
TotalWidth(toks) == IF toks = <<>> THEN 0 ELSE Width(Head(toks)) + TotalWidth(Tail(toks))

\* how many whole tokens lie within the first n bytes (no token is narrower
\* than a byte, so no more than n)
WholeTokens(in, n) ==
    CHOOSE k \in 0..(IF n < Len(in) THEN n ELSE Len(in)) :
        /\ TotalWidth(SubSeq(in, 1, k)) <= n
        /\ k = Len(in) \/ TotalWidth(SubSeq(in, 1, k + 1)) > n

\* the stream after n of its bytes, the first k tokens among them, are taken:
\* a keyword cut in two leaves its last letters
RestAfter(in, n, k) ==
    IF k = Len(in) THEN <<>>
    ELSE IF TotalWidth(SubSeq(in, 1, k)) = n THEN SubSeq(in, k + 1, Len(in))
    ELSE [i \in 1..(TotalWidth(SubSeq(in, 1, k + 1)) - n) |-> Letter]
         \o SubSeq(in, k + 2, Len(in))

PadTo(bytes, n) == [i \in 1..n |-> IF i <= Len(bytes) THEN bytes[i] ELSE NUL]

\* std::cin.read(&message[0], n) into a string of n bytes: the bytes read,
\* NUL where the stream ends early, and the rest of the stream
ReadBytes(in, n) ==
    [message |-> PadTo(Bytes(in), n),
     rest |-> RestAfter(in, n, WholeTokens(in, n))]

-----------------------------------------------------------------------------
(* The messages of the scenario and json::parse *)

UriA == "file:///Game/MyActor.h"
UriB == "file:///Game/Other.h"

TextDocument(uri) == JObj([uri |-> JStr(uri)])
Position == JObj([line |-> JNum(0), character |-> JNum(0)])
At0(uri) == JObj([textDocument |-> TextDocument(uri), position |-> Position])
\* the range of an incremental change
Range == JObj([start |-> Position, end |-> Position])

Request(id, method, params) == JObj([id |-> JNum(id), method |-> JStr(method), params |-> params])
Notification(method, params) == JObj([method |-> JStr(method), params |-> params])

\* The JSON texts a client sends in the scenario, by name
Messages ==
    [initialize |-> JObj([id |-> JNum(1), method |-> JStr("initialize")]),
     initializeNoId |-> JObj([method |-> JStr("initialize")]),
     didOpen |-> Notification("textDocument/didOpen",
                    JObj([textDocument |-> JObj([uri |-> JStr(UriA), text |-> JStr("v1")])])),
     didOpenNoParams |-> Notification("textDocument/didOpen", EmptyObject),
     didOpenNumberUri |-> Notification("textDocument/didOpen",
                    JObj([textDocument |-> JObj([uri |-> JNum(7), text |-> JStr("v1")])])),
     didChange |-> Notification("textDocument/didChange",
                    JObj([textDocument |-> TextDocument(UriA),
                          contentChanges |-> JArr(<<JObj([text |-> JStr("v2")])>>)])),
     didChangeTwo |-> Notification("textDocument/didChange",
                    JObj([textDocument |-> TextDocument(UriA),
                          contentChanges |-> JArr(<<JObj([text |-> JStr("v2")]),
                                                    JObj([text |-> JStr("v3")])>>)])),
     didChangeRange |-> Notification("textDocument/didChange",
                    JObj([textDocument |-> TextDocument(UriA),
                          contentChanges |-> JArr(<<JObj([range |-> Range, text |-> JStr("frag")]),
                                                    JObj([text |-> JStr("v2")])>>)])),
     didChangeNothing |-> Notification("textDocument/didChange",
                    JObj([textDocument |-> TextDocument(UriA), contentChanges |-> JArr(<<>>)])),
     didChangeNoText |-> Notification("textDocument/didChange",
                    JObj([textDocument |-> TextDocument(UriB),
                          contentChanges |-> JArr(<<JObj([range |-> Range])>>)])),
     completion |-> Request(2, "textDocument/completion", At0(UriA)),
     completionNoId |-> Notification("textDocument/completion", At0(UriA)),
     completionOther |-> Request(3, "textDocument/completion", At0(UriB)),
     executeCommand |-> Request(4, "workspace/executeCommand",
                    JObj([command |-> JStr("unreal.analyzeLogs"),
                          arguments |-> JArr(<<At0(UriA)>>)])),
     executeNoArguments |-> Request(5, "workspace/executeCommand",
                    JObj([command |-> JStr("unreal.analyzeLogs")])),
     executeUClass |-> Request(7, "workspace/executeCommand",
                    JObj([command |-> JStr("unreal.generateUClass"),
                          arguments |-> JArr(<<JObj([className |-> JStr("AMyActor"),
                                                     baseClass |-> JStr("AActor")])>>)])),
     executeUnknown |-> Request(8, "workspace/executeCommand",
                    JObj([command |-> JStr("unreal.format"),
                          arguments |-> JArr(<<At0(UriA)>>)])),
     executeBareName |-> Request(9, "workspace/executeCommand",
                    JObj([command |-> JStr("analyzeLogs"),
                          arguments |-> JArr(<<At0(UriA)>>)])),
     shutdown |-> JObj([id |-> JNum(6), method |-> JStr("shutdown")]),
     stringId |-> JObj([id |-> JStr("a"), method |-> JStr("initialize")]),
     wideId |-> JObj([id |-> JBig(1, 2), method |-> JStr("initialize")]),
     array |-> JArr(<<>>)]

\* the JSON text of the message named m
Text(m) == <<Tok("open", m), Tok("close", m)>>

Max(S) == CHOOSE i \in S : \A k \in S : i >= k

\* the text without the whitespace around it
Trimmed(text) ==
    SubSeq(text,
           Min({i \in 1..Len(text) : text[i].c \notin Whitespace} \cup {Len(text) + 1}),
           Max({i \in 1..Len(text) : text[i].c \notin Whitespace} \cup {0}))

IsJsonText(t) ==
    /\ Len(t) = 2
    /\ t[1].c = "open" /\ t[2].c = "close" /\ t[1].v = t[2].v
    /\ t[1].v \in DOMAIN Messages

ParseTrimmed(t) == IF IsJsonText(t) THEN Ok(Messages[t[1].v]) ELSE Throws

\* json::parse: the value of a text that is one JSON value with whitespace
\* around it, json::parse_error for any other text
JsonParse(text) == ParseTrimmed(Trimmed(text))

\* LSPMessage: the id (present or not), the method, the params
LSPMessage(hasId, id, method, params) ==
    [hasId |-> hasId, id |-> id, method |-> method, params |-> params]

\* the message parseMessage starts from: no id, an empty method, null params
EmptyMessage == LSPMessage(FALSE, 0, "", JNull)

\* `msg.id = jsonMsg["id"]` where the value holds the key (lines 1398-1400);
\* find() gives end() for a value that is no object
ParsedId(j) ==
    IF j.k = "object" /\ "id" \in DOMAIN j.o THEN AsInt(Ok(j.o["id"])) ELSE Ok(JNull)

\* `msg.method = jsonMsg["method"]` (line 1402); jsonMsg is not const
ParsedMethod(j) == AsString(MutableAt(Ok(j), "method"))

\* `jsonMsg.value("params", json::object())` (line 1403)
ParsedParams(j) == ValueOr(j, "params", EmptyObject)

\* the fields assigned before the first exception (lines 1398-1403)
FieldsOf(j, id, method, params) ==
    LSPMessage(id.st = "ok" /\ id.val.k = "number",
               IF id.st = "ok" /\ id.val.k = "number" THEN id.val.n ELSE 0,
               IF id.st = "ok" /\ method.st = "ok" THEN method.val.s ELSE "",
               IF id.st = "ok" /\ method.st = "ok" /\ params.st = "ok" THEN params.val ELSE JNull)

ParseResult(msg, logged) == [msg |-> msg, logged |-> logged]

ParsedFrom(j, id, method, params) ==
    ParseResult(FieldsOf(j, id, method, params),
           id.st # "ok" \/ method.st # "ok" \/ params.st # "ok")

ParsedValue(r) ==
    IF r.st # "ok" THEN ParseResult(EmptyMessage, TRUE)
    ELSE ParsedFrom(r.val, ParsedId(r.val), ParsedMethod(r.val), ParsedParams(r.val))

\* parseMessage: the LSPMessage, and whether "JSON parse error" is logged;
\* every json::exception is caught (lines 1407-1409)
parseMessage(message) == ParsedValue(JsonParse(message))

-----------------------------------------------------------------------------
(* The handlers of LSPServer *)

\* a std::string built by concatenation, kept as its pieces
JCat(parts) == [k |-> "string", parts |-> parts]

\* the object sendResponse builds (lines 1371-1374)
ResponseJson(id, result) == JObj([jsonrpc |-> JStr("2.0"), id |-> JNum(id), result |-> result])

\* response.dump(): the text of the value, written as its two halves
Dump(j) == <<Tok("open", j), Tok("close", j)>>

\* what line 1377 writes: "Content-Length: ", responseStr.length(), the
\* separator and the text
Framed(text) == [length |-> TotalWidth(text), body |-> text]

\* the frame sendResponse writes (lines 1370-1379)
Response(id, result) == Framed(Dump(ResponseJson(id, result)))

\* What a handler leaves behind: st is "ok", "throws" (a std::exception
\* reaches handleMessage) or "abort"; files is openFiles_ afterwards, out the
\* responses written
Handled(st, files, out) == [st |-> st, files |-> files, out |-> out]

\* openFiles_[uri] = text
Store(files, uri, text) ==
    [x \in DOMAIN files \cup {uri} |-> IF x = uri THEN text ELSE files[x]]

\* sendResponse(msg.id.value(), result): std::bad_optional_access where the
\* message carries no id
Respond(msg, files, result) ==
    IF msg.hasId THEN Handled("ok", files, <<Response(msg.id, result)>>)
    ELSE Handled("throws", files, <<>>)

\* the result of handleInitialize (lines 1284-1300)
Capabilities ==
    JObj([capabilities |->
        JObj([textDocumentSync |-> JNum(1),
              completionProvider |->
                  JObj([triggerCharacters |->
                      JArr(<<JStr("."), JStr("::"), JStr("U"), JStr("A"), JStr("F")>>)]),
              executeCommandProvider |->
                  JObj([commands |->
                      JArr(<<JStr("unreal.generateUClass"),
                             JStr("unreal.generateBlueprintFunction"),
                             JStr("unreal.syncHeaderSource"),
                             JStr("unreal.analyzeLogs"),
                             JStr("unreal.interpretErrors")>>)])])])

handleInitialize(msg, files) == Respond(msg, files, Capabilities)

\* msg.params["textDocument"][field] as a std::string
DocumentField(msg, field, u) ==
    AsString(At(At(Ok(msg.params), "textDocument", u), field, u))

\* msg.params["position"][field] as an int
PositionField(params, field, u) == AsInt(At(At(Ok(params), "position", u), field, u))

\* the end of a handler whose expressions gave rs: the first failure, or the
\* effect
Finish(rs, files, effect) ==
    IF FirstFailure(rs).st = "ok" THEN effect ELSE Handled(FirstFailure(rs).st, files, <<>>)

OpenedWith(uri, text, files) ==
    Finish(<<uri, text>>, files, Handled("ok", Store(files, uri.val.s, text.val.s), <<>>))

\* handleTextDocumentDidOpen (lines 1305-1310)
handleTextDocumentDidOpen(msg, files, u) ==
    OpenedWith(DocumentField(msg, "uri", u), DocumentField(msg, "text", u), files)

\* line 1317: changes[0]["text"] of the copy `changes`, as a std::string
FirstChangeText(changes) == AsString(MutableAt(MutableFirst(changes), "text"))

\* a handler that evaluates openFiles_[uri] before the text of line 1317 is
\* converted: the entry is there when the conversion throws; not what a C++17
\* build does
ChangedWithEntryFirst(uri, changes, text, files) ==
    IF FirstFailure(<<uri, changes>>).st # "ok"
    THEN Handled(FirstFailure(<<uri, changes>>).st, files, <<>>)
    ELSE IF IsEmpty(changes.val) THEN Handled("ok", files, <<>>)
    ELSE IF text.st # "ok"
    THEN Handled(text.st, IF uri.val.s \in DOMAIN files THEN files
                          ELSE Store(files, uri.val.s, ""), <<>>)
    ELSE Handled("ok", Store(files, uri.val.s, text.val.s), <<>>)

\* lines 1313-1318: nothing is stored for an empty list; the right operand of
\* the assignment of line 1317 is evaluated, and converted, before
\* openFiles_[uri]
ChangedWith(uri, changes, text, files) ==
    IF FirstFailure(<<uri, changes>>).st # "ok"
    THEN Handled(FirstFailure(<<uri, changes>>).st, files, <<>>)
    ELSE IF IsEmpty(changes.val) THEN Handled("ok", files, <<>>)
    ELSE Finish(<<text>>, files, Handled("ok", Store(files, uri.val.s, text.val.s), <<>>))

ChangesOf(msg, uri, changes, files) == ChangedWith(uri, changes, FirstChangeText(changes), files)

\* handleTextDocumentDidChange (lines 1312-1319)
handleTextDocumentDidChange(msg, files, u) ==
    ChangesOf(msg, DocumentField(msg, "uri", u), At(Ok(msg.params), "contentChanges", u), files)

\* the action handleWorkspaceExecuteCommand passes for a command (lines
\* 1351-1365), "" for any other command
\* a dispatch that runs the log analysis for a command it does not know; not
\* what the handler does
ActionOfOrAnalyze(command) ==
    CASE command = "unreal.generateUClass" -> "generateUClass"
      [] command = "unreal.generateBlueprintFunction" -> "generateBlueprintFunction"
      [] command = "unreal.syncHeaderSource" -> "syncHeaderSource"
      [] command = "unreal.interpretErrors" -> "interpretErrors"
      [] OTHER -> "analyzeLogs"

ActionOf(command) ==
    CASE command = "unreal.generateUClass" -> "generateUClass"
      [] command = "unreal.generateBlueprintFunction" -> "generateBlueprintFunction"
      [] command = "unreal.syncHeaderSource" -> "syncHeaderSource"
      [] command = "unreal.analyzeLogs" -> "analyzeLogs"
      [] command = "unreal.interpretErrors" -> "interpretErrors"
      [] OTHER -> ""

\* what the collaborator of an action returns, as an opaque text
CollaboratorOutput(action) == JCat(<<"output of ", action>>)

\* executeCodeAction (lines 1140-1164): the three parameters are read from
\* the const params before the action is looked at
executeCodeAction(action, params, u) ==
    IF params.st # "ok" THEN params
    ELSE IF FirstFailure(<<AsString(At(At(params, "textDocument", u), "uri", u)),
                           PositionField(params.val, "line", u),
                           PositionField(params.val, "character", u)>>).st # "ok"
    THEN FirstFailure(<<AsString(At(At(params, "textDocument", u), "uri", u)),
                        PositionField(params.val, "line", u),
                        PositionField(params.val, "character", u)>>)
    ELSE Ok(CollaboratorOutput(action))

\* lines 1349-1367 once command and arguments are read
ExecutedWith(msg, command, arguments, files, u, result) ==
    IF FirstFailure(<<command, arguments>>).st # "ok"
    THEN Handled(FirstFailure(<<command, arguments>>).st, files, <<>>)
    ELSE IF ActionOf(command.val.s) = "" THEN Respond(msg, files, JStr(""))
    ELSE IF result.st # "ok" THEN Handled(result.st, files, <<>>)
    ELSE Respond(msg, files, result.val)

CommandOf(msg, command, arguments, files, u) ==
    ExecutedWith(msg, command, arguments, files, u,
                 IF command.st = "ok" /\ arguments.st = "ok"
                 THEN executeCodeAction(ActionOf(command.val.s), MutableFirst(arguments), u)
                 ELSE Throws)

\* handleWorkspaceExecuteCommand (lines 1345-1368)
handleWorkspaceExecuteCommand(msg, files, u) ==
    CommandOf(msg, AsString(At(Ok(msg.params), "command", u)),
              ValueOr(msg.params, "arguments", JArr(<<>>)), files, u)

-----------------------------------------------------------------------------
(* Completion: VersionCompatibleAutoComplete and UnrealEngineAnalyzer *)

\* the macros of getMacroCompletions (line 1011), with their characters
Macros ==
    <<[name |-> "UCLASS", chars |-> <<"U", "C", "L", "A", "S", "S">>],
      [name |-> "USTRUCT", chars |-> <<"U", "S", "T", "R", "U", "C", "T">>],
      [name |-> "UFUNCTION", chars |-> <<"U", "F", "U", "N", "C", "T", "I", "O", "N">>],
      [name |-> "UPROPERTY", chars |-> <<"U", "P", "R", "O", "P", "E", "R", "T", "Y">>],
      [name |-> "UENUM", chars |-> <<"U", "E", "N", "U", "M">>]>>

\* text.find(prefix) != npos, the prefix anywhere in the text; not what the
\* code asks
Contains(chars, prefix) ==
    \E k \in 0..(Len(chars) - Len(prefix)) : SubSeq(chars, k + 1, k + Len(prefix)) = prefix

\* text.find(prefix) == 0
StartsWith(chars, prefix) ==
    Len(prefix) <= Len(chars) /\ SubSeq(chars, 1, Len(prefix)) = prefix

\* EngineVersion::toString, as its pieces
VersionText(v) == <<v.major, ".", v.minor, ".", v.patch>>

CompletionItem(label, insertText, detail, kind, sortText) ==
    [label |-> label, insertText |-> insertText, detail |-> detail,
     kind |-> kind, sortText |-> sortText]

MacroItem(macro, version) ==
    CompletionItem(macro, getMacroTemplate(macro, version),
                   <<"Unreal Engine ", VersionText(version), " Macro">>,
                   15, <<"0_", macro>>)

\* getMacroCompletions (lines 1008-1027)
getMacroCompletions(prefix, version) ==
    [i \in 1..Len(SelectSeq(Macros, LAMBDA m : prefix = <<>> \/ StartsWith(m.chars, prefix)))
        |-> MacroItem(SelectSeq(Macros, LAMBDA m : prefix = <<>> \/ StartsWith(m.chars, prefix))[i].name,
                      version)]

\* context.find("::") != std::string::npos
HasScopeMarker(context) ==
    \E i \in 1..(Len(context) - 1) : context[i] = ":" /\ context[i + 1] = ":"

\* DynamicHeaderScanner::getClassMethods (lines 475-481): the read of
\* scannedClasses_
ScannedMethods(scanned, className) ==
    IF className \in DOMAIN scanned THEN scanned[className] ELSE <<>>

\* The words of the scenario with their characters: the method names of the
\* database, of the defaults and of the scanned headers, then the class names
Words ==
    <<[name |-> "BeginPlay", chars |-> <<"B", "e", "g", "i", "n", "P", "l", "a", "y">>],
      [name |-> "EndPlay", chars |-> <<"E", "n", "d", "P", "l", "a", "y">>],
      [name |-> "Tick", chars |-> <<"T", "i", "c", "k">>],
      [name |-> "GetActorLocation", chars |-> <<"G", "e", "t", "A", "c", "t", "o", "r", "L", "o", "c", "a", "t", "i", "o", "n">>],
      [name |-> "SetActorLocation", chars |-> <<"S", "e", "t", "A", "c", "t", "o", "r", "L", "o", "c", "a", "t", "i", "o", "n">>],
      [name |-> "GetWorld", chars |-> <<"G", "e", "t", "W", "o", "r", "l", "d">>],
      [name |-> "Destroy", chars |-> <<"D", "e", "s", "t", "r", "o", "y">>],
      [name |-> "GetComponents", chars |-> <<"G", "e", "t", "C", "o", "m", "p", "o", "n", "e", "n", "t", "s">>],
      [name |-> "GetRootComponent", chars |-> <<"G", "e", "t", "R", "o", "o", "t", "C", "o", "m", "p", "o", "n", "e", "n", "t">>],
      [name |-> "PossessedBy", chars |-> <<"P", "o", "s", "s", "e", "s", "s", "e", "d", "B", "y">>],
      [name |-> "UnPossessed", chars |-> <<"U", "n", "P", "o", "s", "s", "e", "s", "s", "e", "d">>],
      [name |-> "GetController", chars |-> <<"G", "e", "t", "C", "o", "n", "t", "r", "o", "l", "l", "e", "r">>],
      [name |-> "SetupPlayerInputComponent", chars |-> <<"S", "e", "t", "u", "p", "P", "l", "a", "y", "e", "r", "I", "n", "p", "u", "t", "C", "o", "m", "p", "o", "n", "e", "n", "t">>],
      [name |-> "GetMovementComponent", chars |-> <<"G", "e", "t", "M", "o", "v", "e", "m", "e", "n", "t", "C", "o", "m", "p", "o", "n", "e", "n", "t">>],
      [name |-> "AddMovementInput", chars |-> <<"A", "d", "d", "M", "o", "v", "e", "m", "e", "n", "t", "I", "n", "p", "u", "t">>],
      [name |-> "AddControllerYawInput", chars |-> <<"A", "d", "d", "C", "o", "n", "t", "r", "o", "l", "l", "e", "r", "Y", "a", "w", "I", "n", "p", "u", "t">>],
      [name |-> "Jump", chars |-> <<"J", "u", "m", "p">>],
      [name |-> "StopJumping", chars |-> <<"S", "t", "o", "p", "J", "u", "m", "p", "i", "n", "g">>],
      [name |-> "CanJump", chars |-> <<"C", "a", "n", "J", "u", "m", "p">>],
      [name |-> "GetCharacterMovement", chars |-> <<"G", "e", "t", "C", "h", "a", "r", "a", "c", "t", "e", "r", "M", "o", "v", "e", "m", "e", "n", "t">>],
      [name |-> "LaunchCharacter", chars |-> <<"L", "a", "u", "n", "c", "h", "C", "h", "a", "r", "a", "c", "t", "e", "r">>],
      [name |-> "GetName", chars |-> <<"G", "e", "t", "N", "a", "m", "e">>],
      [name |-> "GetClass", chars |-> <<"G", "e", "t", "C", "l", "a", "s", "s">>],
      [name |-> "IsA", chars |-> <<"I", "s", "A">>],
      [name |-> "GetOuter", chars |-> <<"G", "e", "t", "O", "u", "t", "e", "r">>],
      [name |-> "ConditionalBeginDestroy", chars |-> <<"C", "o", "n", "d", "i", "t", "i", "o", "n", "a", "l", "B", "e", "g", "i", "n", "D", "e", "s", "t", "r", "o", "y">>],
      [name |-> "TickComponent", chars |-> <<"T", "i", "c", "k", "C", "o", "m", "p", "o", "n", "e", "n", "t">>],
      [name |-> "Activate", chars |-> <<"A", "c", "t", "i", "v", "a", "t", "e">>],
      [name |-> "Deactivate", chars |-> <<"D", "e", "a", "c", "t", "i", "v", "a", "t", "e">>],
      [name |-> "IsActive", chars |-> <<"I", "s", "A", "c", "t", "i", "v", "e">>],
      [name |-> "GetActorTransform", chars |-> <<"G", "e", "t", "A", "c", "t", "o", "r", "T", "r", "a", "n", "s", "f", "o", "r", "m">>],
      [name |-> "SetActorTransform", chars |-> <<"S", "e", "t", "A", "c", "t", "o", "r", "T", "r", "a", "n", "s", "f", "o", "r", "m">>],
      [name |-> "FindComponentByClass", chars |-> <<"F", "i", "n", "d", "C", "o", "m", "p", "o", "n", "e", "n", "t", "B", "y", "C", "l", "a", "s", "s">>],
      [name |-> "AddControllerPitchInput", chars |-> <<"A", "d", "d", "C", "o", "n", "t", "r", "o", "l", "l", "e", "r", "P", "i", "t", "c", "h", "I", "n", "p", "u", "t">>],
      [name |-> "Crouch", chars |-> <<"C", "r", "o", "u", "c", "h">>],
      [name |-> "UnCrouch", chars |-> <<"U", "n", "C", "r", "o", "u", "c", "h">>],
      [name |-> "CanCrouch", chars |-> <<"C", "a", "n", "C", "r", "o", "u", "c", "h">>],
      [name |-> "GetTypedOuter", chars |-> <<"G", "e", "t", "T", "y", "p", "e", "d", "O", "u", "t", "e", "r">>],
      [name |-> "MarkAsGarbage", chars |-> <<"M", "a", "r", "k", "A", "s", "G", "a", "r", "b", "a", "g", "e">>],
      [name |-> "RegisterComponent", chars |-> <<"R", "e", "g", "i", "s", "t", "e", "r", "C", "o", "m", "p", "o", "n", "e", "n", "t">>],
      [name |-> "UnregisterComponent", chars |-> <<"U", "n", "r", "e", "g", "i", "s", "t", "e", "r", "C", "o", "m", "p", "o", "n", "e", "n", "t">>],
      [name |-> "GetActorNameOrLabel", chars |-> <<"G", "e", "t", "A", "c", "t", "o", "r", "N", "a", "m", "e", "O", "r", "L", "a", "b", "e", "l">>],
      [name |-> "SetActorLabel", chars |-> <<"S", "e", "t", "A", "c", "t", "o", "r", "L", "a", "b", "e", "l">>],
      [name |-> "GetActorGuid", chars |-> <<"G", "e", "t", "A", "c", "t", "o", "r", "G", "u", "i", "d">>],
      [name |-> "CustomTick", chars |-> <<"C", "u", "s", "t", "o", "m", "T", "i", "c", "k">>],
      [name |-> "AActor", chars |-> <<"A", "A", "c", "t", "o", "r">>],
      [name |-> "UObject", chars |-> <<"U", "O", "b", "j", "e", "c", "t">>],
      [name |-> "APawn", chars |-> <<"A", "P", "a", "w", "n">>],
      [name |-> "ACharacter", chars |-> <<"A", "C", "h", "a", "r", "a", "c", "t", "e", "r">>],
      [name |-> "UActorComponent", chars |-> <<"U", "A", "c", "t", "o", "r", "C", "o", "m", "p", "o", "n", "e", "n", "t">>],
      [name |-> "AMyActor", chars |-> <<"A", "M", "y", "A", "c", "t", "o", "r">>],
      [name |-> "x", chars |-> <<"x">>],
      [name |-> "(AActor", chars |-> <<"(", "A", "A", "c", "t", "o", "r">>],
      [name |-> "Outer::AActor", chars |-> <<"O", "u", "t", "e", "r", ":", ":", "A", "A", "c", "t", "o", "r">>]>>

WordNames == [i \in 1..Len(Words) |-> Words[i].name]

\* the word with the given characters, "" where the scenario has none
Word(chars) ==
    IF \E i \in 1..Len(Words) : Words[i].chars = chars
    THEN Words[CHOOSE i \in 1..Len(Words) : Words[i].chars = chars].name
    ELSE ""

CharsOf(w) == Words[CHOOSE i \in 1..Len(Words) : Words[i].name = w].chars

Reverse(seq) == [i \in 1..Len(seq) |-> seq[Len(seq) + 1 - i]]

\* an order that changes from one call to the next; not what a build does
IterationOrderByCall(set, order) ==
    IF (order = "up") = (Len(sCalls) % 2 = 0) THEN SelectSeq(WordNames, LAMBDA w : w \in set)
    ELSE SelectSeq(Reverse(WordNames), LAMBDA w : w \in set)

\* The order in which a std::unordered_set<std::string> is iterated (line
\* 1047). The standard leaves it to the implementation; one build iterates
\* equal sets built by equal insertions in one order. The builds of the
\* scenario differ in the direction, "up" or "down" the list of words.
IterationOrder(set, order) ==
    IF order = "up" THEN SelectSeq(WordNames, LAMBDA w : w \in set)
    ELSE SelectSeq(Reverse(WordNames), LAMBDA w : w \in set)

\* the two vectors one after the other, nothing removed; not what the code
\* iterates
AllMethodsListed(apiMethods, scannedMethods, order) == apiMethods \o scannedMethods

\* allMethods (lines 1044-1045): the unordered_set built from the methods of
\* the database and the scanned ones, as the sequence its iteration gives
AllMethods(apiMethods, scannedMethods, order) ==
    IterationOrder(SeqToSet(apiMethods) \cup SeqToSet(scannedMethods), order)

\* context.rfind("::") (line 1032): the place of the last marker, 0 for npos
ScopePos(context) ==
    Max({i \in 1..(Len(context) - 1) : context[i] = ":" /\ context[i + 1] = ":"} \cup {0})

\* className.find_last_of(" \t") and substr (lines 1036-1039)
AfterLastSpace(cs) ==
    SubSeq(cs, Max({i \in 1..Len(cs) : cs[i] \in {" ", "\t"}} \cup {0}) + 1, Len(cs))

\* lines 1035-1039: the class name getMemberCompletions looks up
ClassNameOf(context, pos) == Word(AfterLastSpace(SubSeq(context, 1, pos - 1)))

\* a member item whose sort key starts like that of a macro; not what line
\* 1054 writes
MemberItemRankedAsMacro(className, method, version) ==
    CompletionItem(method, method,
                   <<className, "::", method, " (UE ", VersionText(version), ")">>,
                   2, <<"0_", method>>)

\* the completion of a method (lines 1049-1054)
MemberItem(className, method, version) ==
    CompletionItem(method, method,
                   <<className, "::", method, " (UE ", VersionText(version), ")">>,
                   2, <<"1_", method>>)

MemberItems(className, methods, version) ==
    [i \in 1..Len(methods) |-> MemberItem(className, methods[i], version)]

\* lines 1041-1058 for the class looked up
MembersOfClass(className, prefix, version, scanned, order) ==
    MemberItems(className,
                SelectSeq(AllMethods(getClassMethods(className, version),
                                     ScannedMethods(scanned, className), order),
                          LAMBDA m : prefix = <<>> \/ StartsWith(CharsOf(m), prefix)),
                version)

\* getMemberCompletions (lines 1029-1061)
getMemberCompletions(context, prefix, version, scanned, order) ==
    IF ScopePos(context) = 0 THEN <<>>
    ELSE MembersOfClass(ClassNameOf(context, ScopePos(context)), prefix, version, scanned, order)

\* getCurrentWord and detectUnrealContext of UnrealEngineAnalyzer (lines
\* 1204-1212): both return the empty string for every text and position
getCurrentWord(text, line, character) == <<>>
detectUnrealContext(text, line, character) == <<>>

\* VersionCompatibleAutoComplete::getCompletions (lines 994-1006): the macro
\* items, then the member items where the context holds a scope marker; and
\* whether the member lookup, the one reader of scannedClasses_, is made
getCompletions(prefix, context, version, scanned, order) ==
    [items |-> getMacroCompletions(prefix, version)
               \o (IF HasScopeMarker(context)
                   THEN getMemberCompletions(context, prefix, version, scanned, order)
                   ELSE <<>>),
     readsScanned |-> HasScopeMarker(context)]

\* operator[] of std::unordered_map and of a json object that is not const:
\* a key that is absent is inserted with a value-initialized element
InsertIfAbsent(map, key, element) ==
    IF key \in DOMAIN map THEN map ELSE map @@ (key :> element)

\* scannedClasses_[className] without the test of line 476; not what the
\* code does
ScannedAfterUnguardedLookup(scanned, className) ==
    InsertIfAbsent(scanned, className, <<>>)

\* DynamicHeaderScanner::getClassMethods (lines 475-481): scannedClasses_
\* after the call, operator[] reached only where find succeeded
ScannedAfterLookup(scanned, className) ==
    IF className \in DOMAIN scanned
    THEN InsertIfAbsent(scanned, className, <<>>)
    ELSE scanned

\* VersionSpecificAPI::getClassMethods (lines 346-358): apiDatabase_ after
\* the call, the subscripts of line 353 reached only behind the three finds
DatabaseAfterClassLookup(db, className, version) ==
    IF /\ getVersionKey(version) \in DOMAIN db
       /\ className \in DOMAIN db[getVersionKey(version)].classes
    THEN [db EXCEPT ![getVersionKey(version)].classes = InsertIfAbsent(@, className, <<>>)]
    ELSE db

\* VersionSpecificAPI::getMacroTemplate (lines 360-371): apiDatabase_ after
\* the call
DatabaseAfterMacroLookup(db, macroName, version) ==
    IF /\ getVersionKey(version) \in DOMAIN db
       /\ macroName \in DOMAIN db[getVersionKey(version)].macros
    THEN [db EXCEPT ![getVersionKey(version)].macros = InsertIfAbsent(@, macroName, "")]
    ELSE db

\* getMacroCompletions (lines 1013-1024): apiDatabase_ after the loop, a
\* template asked for each macro that starts with the prefix
RECURSIVE DatabaseAfterMacros(_, _, _, _)
DatabaseAfterMacros(db, macros, prefix, version) ==
    IF macros = <<>> THEN db
    ELSE DatabaseAfterMacros(
             IF prefix = <<>> \/ StartsWith(Head(macros).chars, prefix)
             THEN DatabaseAfterMacroLookup(db, Head(macros).name, version)
             ELSE db,
             Tail(macros), prefix, version)

\* getCompletions (lines 994-1006): apiDatabase_ and scannedClasses_ after
\* the call, the class looked up (lines 1041-1042) where the context holds a
\* scope marker
DatabaseAfterCompletions(db, prefix, context, version) ==
    IF HasScopeMarker(context) /\ ScopePos(context) # 0
    THEN DatabaseAfterClassLookup(DatabaseAfterMacros(db, Macros, prefix, version),
                                  ClassNameOf(context, ScopePos(context)), version)
    ELSE DatabaseAfterMacros(db, Macros, prefix, version)

ScannedAfterCompletions(scanned, context) ==
    IF HasScopeMarker(context) /\ ScopePos(context) # 0
    THEN ScannedAfterLookup(scanned, ClassNameOf(context, ScopePos(context)))
    ELSE scanned

-----------------------------------------------------------------------------
(* DynamicHeaderScanner *)

UpperCase ==
    {"A", "B", "C", "D", "E", "F", "G", "H", "I", "J", "K", "L", "M",
     "N", "O", "P", "Q", "R", "S", "T", "U", "V", "W", "X", "Y", "Z"}

\* A name the method pattern of extractClassMethods captures, with its first
\* character
Decl(name, first) == [name |-> name, first |-> first]

\* A header file: whether it can be opened, the names the class pattern
\* captures and the names the method pattern captures, each in the order of
\* the text
HeaderFile(openable, classes, decls) ==
    [kind |-> "header", openable |-> openable, classes |-> classes, decls |-> decls]

\* a regular file that is no header, and a step of the iteration that throws
\* fs::filesystem_error
OtherFile == [kind |-> "other", openable |-> TRUE, classes |-> <<>>, decls |-> <<>>]
EntryError == [kind |-> "error", openable |-> FALSE, classes |-> <<>>, decls |-> <<>>]

\* An include directory of the engine: exists is "yes", "no", or "error"
\* where fs::exists throws; entries is what fs::recursive_directory_iterator
\* yields, in its order
IncludeDir(exists, entries) == [exists |-> exists, entries |-> entries]

\* every captured name, none filtered out
extractClassMethodsUnfiltered(decls, className) ==
    [i \in 1..Len(decls) |-> decls[i].name]

\* extractClassMethods (lines 524-546): the captured names that pass the
\* filter of lines 533-536, duplicates kept
extractClassMethods(decls, className) ==
    [i \in 1..Len(SelectSeq(decls, LAMBDA d : /\ d.name # className
                                              /\ d.first # "~"
                                              /\ d.name # "operator"
                                              /\ d.first \in UpperCase))
        |-> SelectSeq(decls, LAMBDA d : /\ d.name # className
                                        /\ d.first # "~"
                                        /\ d.name # "operator"
                                        /\ d.first \in UpperCase)[i].name]

\* an assignment scannedClasses_[className] = methods
MapWrite(className, methods) == [class |-> className, methods |-> methods]

\* scanHeaderFile (lines 500-522): the assignments it makes, one for each
\* captured class with a method list that is not empty
scanHeaderFile(file) ==
    IF ~file.openable THEN <<>>
    ELSE SelectSeq([i \in 1..Len(file.classes) |->
                       MapWrite(file.classes[i], extractClassMethods(file.decls, file.classes[i]))],
                   LAMBDA w : w.methods # <<>>)

\* scanDirectory (lines 488-498): the iteration ends at the first step that
\* throws; the files after it are not seen
scanDirectory(entries) ==
    Concat([i \in 1..(Min({k \in 1..Len(entries) : entries[k].kind = "error"}
                          \cup {Len(entries) + 1}) - 1) |->
               IF entries[i].kind = "header" THEN scanHeaderFile(entries[i]) ELSE <<>>])

\* fs::exists(enginePath_ + "/" + includePath) on the disk
Exists(disk, includePath) ==
    IF includePath \in DOMAIN disk THEN disk[includePath].exists ELSE "no"

\* the include paths scanEngineHeaders reaches: those before the first whose
\* fs::exists throws
ReachedPaths(paths, disk) ==
    SubSeq(paths, 1, Min({k \in 1..Len(paths) : Exists(disk, paths[k]) = "error"}
                         \cup {Len(paths) + 1}) - 1)

WritesUnder(paths, disk) ==
    Concat([i \in 1..Len(paths) |->
               IF Exists(disk, paths[i]) = "yes" THEN scanDirectory(disk[paths[i]].entries)
               ELSE <<>>])

\* a scan without the return of line 463; not what the code does
ScanWritesWhateverPath(version, disk) ==
    WritesUnder(ReachedPaths(getIncludePaths(version), disk), disk)

\* scanEngineHeaders (lines 462-473): the assignments to scannedClasses_ in
\* the order the thread makes them
ScanWrites(version, disk) ==
    IF version.installPath = <<>> THEN <<>>
    ELSE WritesUnder(ReachedPaths(getIncludePaths(version), disk), disk)

\* whether the thread is left by an exception: fs::exists of line 469 is
\* outside every try block, and an exception that leaves the function of a
\* std::thread calls std::terminate
ScanTerminates(version, disk) ==
    /\ version.installPath # <<>>
    /\ \E k \in 1..Len(getIncludePaths(version)) :
           Exists(disk, getIncludePaths(version)[k]) = "error"

-----------------------------------------------------------------------------
(* LSPServer::run and handleMessage *)

\* The next thing run() finds on the stream: kind is "end" (getline fails),
\* "skip" (a line that is no header), "throws" (an exception leaves run()),
\* or "frame" with the message read
OnStream(kind, message, rest) == [kind |-> kind, message |-> message, rest |-> rest]

\* lines 1252-1256: the blank line is skipped, whatever it holds, and n bytes
\* are read
FrameOf(n, afterBlank) ==
    OnStream("frame", ReadBytes(afterBlank.rest, n).message, ReadBytes(afterBlank.rest, n).rest)

\* lines 1251-1254: std::stoi, and message.resize(n), which throws
\* std::length_error for a negative n
HeaderOf(length, rest) ==
    IF length.st # "ok" \/ length.n < 0 THEN OnStream("throws", <<>>, rest)
    ELSE FrameOf(length.n, getline(rest))

LineOf(l) ==
    IF ~l.ok THEN OnStream("end", <<>>, <<>>)
    ELSE IF ~IsHeaderLine(l.line) THEN OnStream("skip", <<>>, l.rest)
    ELSE HeaderOf(HeaderLength(l.line), l.rest)

\* one pass of the loop of run() up to the call of handleMessage
NextOnStream(in) == LineOf(getline(in))

\* lines 1322-1324 of handleTextDocumentCompletion: the three parameters,
\* the uri the last of the results
CompletionParams(msg, u) ==
    FirstFailure(<<DocumentField(msg, "uri", u),
                   PositionField(msg.params, "line", u),
                   PositionField(msg.params, "character", u),
                   DocumentField(msg, "uri", u)>>)

\* whether handleTextDocumentCompletion calls the analyzer: the parameters
\* are read and the uri is in openFiles_ (line 1326)
CallsAnalyzer(msg, files, u) ==
    CompletionParams(msg, u).st = "ok" /\ CompletionParams(msg, u).val.s \in DOMAIN files

\* a handler that answers an unopened uri with an empty list; not what the
\* code does
CompletionSkippedWithEmptyList(msg, files, u) ==
    IF CompletionParams(msg, u).st = "ok" THEN Respond(msg, files, JArr(<<>>))
    ELSE Handled(CompletionParams(msg, u).st, files, <<>>)

\* handleTextDocumentCompletion where it does not call the analyzer: a
\* parameter fails, or the uri is not in openFiles_ and nothing is sent
CompletionSkipped(msg, files, u) ==
    Handled(CompletionParams(msg, u).st, files, <<>>)

\* the JSON of a CompletionItem (lines 1330-1337)
ItemJson(item) ==
    JObj([label |-> JStr(item.label), insertText |-> JStr(item.insertText),
          detail |-> JCat(item.detail), kind |-> JNum(item.kind),
          sortText |-> JCat(item.sortText)])

ItemsJson(items) == JArr([i \in 1..Len(items) |-> ItemJson(items[i])])

\* An entry of the record of handled messages: the method, whether
\* parseMessage logged an error, and how the handler ended
Outcome(method, parseError, st) == [method |-> method, parseError |-> parseError, st |-> st]

\* the handling of the message failed
Failed(o) == o.parseError \/ o.st # "ok"

\* what handleMessage writes to the error stream
LogOf(parseError, st) ==
    (IF parseError THEN <<"JSON parse error">> ELSE <<>>)
    \o (IF st = "throws" THEN <<"Error handling message">> ELSE <<>>)

-----------------------------------------------------------------------------
(* The hosts and projects of the detector scenario *)

\* the longest list of install roots of a host
MaxRoots == 2

Launcher == <<"/Users/Shared/Epic Games">>
Apps == <<"/Applications">>
Home == <<"/Users/dev">>

Nines == <<"9", "9", "9", "9", "9", "9", "9", "9", "9", "9">>

\* /Users/Shared/Epic Games/UE_5.2 with Build.version 5.2.1
cUE52 == Candidate(Launcher \o <<"/", "UE", "_", "5", ".", "2">>, "yes",
                   BuildFile(IntField(5), IntField(2), IntField(1)))
\* /Users/dev/ue-5.2.1 without Build.version
cUE521 == Candidate(Home \o <<"/", "ue", "-", "5", ".", "2", ".", "1">>, "yes", NoBuildFile)
\* /Users/Shared/Epic Games/UE_5.1 without Build.version
cUE51 == Candidate(Launcher \o <<"/", "UE", "_", "5", ".", "1">>, "yes", NoBuildFile)
\* /Applications/UE4.27 with a Build.version that is no JSON
cUE427 == Candidate(Apps \o <<"/", "UE", "4", ".", "2", "7">>, "yes", UnparsableBuildFile)
\* /Applications/UnrealEngine whose Build.version holds a string MinorVersion
cPartial == Candidate(Apps \o <<"/", "UnrealEngine">>, "yes",
                      BuildFile(IntField(5), BadField, IntField(0)))
\* /Users/dev/UE_9999999999.0 without Build.version
cHuge == Candidate(Home \o <<"/", "UE", "_">> \o Nines \o <<".", "0">>, "yes", NoBuildFile)
\* a directory without an Engine subdirectory
cPlain == Candidate(Launcher \o <<"/", "Launcher">>, "no", NoBuildFile)
\* a directory whose Engine subdirectory cannot be examined
cDenied == Candidate(Home \o <<"/", "private">>, "error", NoBuildFile)

NotAnEngine(path) == Candidate(path, "no", NoBuildFile)

RootChoices ==
    { Root("no", NotAnEngine(Launcher), TRUE, <<>>),
      Root("yes", NotAnEngine(Launcher), TRUE,
           <<DirEntry("yes", cPlain), DirEntry("yes", cUE51), DirEntry("yes", cUE52)>>),
      Root("yes", cUE521, TRUE, <<DirEntry("yes", cUE51)>>),
      Root("yes", NotAnEngine(Apps), TRUE,
           <<DirEntry("no", cPlain), DirEntry("yes", cPartial), DirEntry("yes", cDenied),
             DirEntry("yes", cHuge), DirEntry("yes", cUE427)>>),
      Root("yes", NotAnEngine(Home), TRUE,
           <<DirEntry("yes", cUE52), DirEntry("error", cPlain), DirEntry("yes", cUE427)>>),
      Root("yes", NotAnEngine(Home), FALSE, <<>>),
      Root("yes", cHuge, TRUE, <<>>),
      Root("error", NotAnEngine(Home), TRUE, <<>>) }

EnvChoices == { <<>>, <<cUE521>>, <<cDenied, cHuge, cUE51>> }

Worlds ==
    {[roots |-> r, env |-> e] : r \in SeqsUpTo(RootChoices, MaxRoots), e \in EnvChoices}

Guid == <<"{", "4", "E", "1", "-", "9", "A", "}">>

UProject(text) == ProjectFile(TRUE, "string", text)

ProjectDirs ==
    { ProjectDir(FALSE, <<>>),
      ProjectDir(TRUE, <<>>),
      ProjectDir(TRUE, <<ProjectFile(FALSE, "string", <<"5", ".", "1">>)>>),
      ProjectDir(TRUE, <<ProjectFile(TRUE, "unparsable", <<>>)>>),
      ProjectDir(TRUE, <<ProjectFile(TRUE, "absent", <<>>)>>),
      ProjectDir(TRUE, <<ProjectFile(TRUE, "notString", <<>>)>>),
      ProjectDir(TRUE, <<UProject(<<"5", ".", "2">>)>>),
      ProjectDir(TRUE, <<UProject(<<"5", ".", "1", ".", "3">>)>>),
      ProjectDir(TRUE, <<UProject(<<"4", ".", "2", "7">>)>>),
      ProjectDir(TRUE, <<UProject(<<"6", ".", "0">>)>>),
      ProjectDir(TRUE, <<UProject(Guid)>>),
      ProjectDir(TRUE, <<UProject(<<>>)>>),
      ProjectDir(TRUE, <<UProject(Nines \o <<".", "1">>)>>),
      ProjectDir(TRUE, <<ProjectFile(TRUE, "absent", <<>>), UProject(<<"5", ".", "1">>)>>),
      ProjectDir(TRUE, <<UProject(<<"5", ".", "2">> \o <<".">> \o Nines), UProject(<<"5", ".", "1">>)>>) }

NoWorld == [roots |-> <<>>, env |-> <<>>]
NoOutcome == Found("none", <<>>)
NoResolved == Resolved("none", DefaultVersion)

DetIdle ==
    /\ world = NoWorld
    /\ projectDir = ProjectDir(TRUE, <<>>)
    /\ discovered = NoOutcome
    /\ resolved = NoResolved
    /\ detPc = "idle"

-----------------------------------------------------------------------------
(* The queries of the API scenario *)

MaxMajor == 6
MaxMinor == 6
MaxPatch == 1

QueryVersions ==
    {EngineVersionOf(ma, mi, pa, <<>>) : ma \in 0..MaxMajor, mi \in -1..MaxMinor, pa \in 0..MaxPatch}

QueryClasses == {"AActor", "APawn", "ACharacter", "UObject", "UActorComponent", "AMyActor"}
QueryMacros == {"UCLASS", "USTRUCT", "UFUNCTION", "UPROPERTY", "UENUM", "UINTERFACE"}

Answer(op, arg, key, list, text) ==
    [op |-> op, arg |-> arg, key |-> key, list |-> list, text |-> text]

NoAnswer == Answer("none", "", "", <<>>, "")

ApiIdle ==
    /\ qVersion = DefaultVersion
    /\ qResult = NoAnswer
    /\ apiPc = "idle"

-----------------------------------------------------------------------------
(* The streams, engines and header trees of the server scenario *)

\* the most frames a client writes after its opening
MaxFrames == 1

\* the header and separator of a frame whose body is one JSON text
Header == <<Keyword, Space, Digit("2"), CR, LF, CR, LF>>

WellFramed(m) == Header \o Text(m)

\* what a client may write between the ends of two frames
FrameChoices ==
    {WellFramed(m) : m \in DOMAIN Messages}
    \cup { \* a length that is no number
           <<Keyword, Space, Letter, CR, LF, CR, LF>> \o Text("initialize"),
           \* no length at all, and the keyword alone on its line
           <<Keyword, Space, CR, LF, CR, LF>> \o Text("initialize"),
           <<Keyword, LF, LF>> \o Text("initialize"),
           \* a negative length, and one that does not fit an int
           <<Keyword, Space, Minus, Digit("2"), CR, LF, CR, LF>> \o Text("initialize"),
           <<Keyword, Space>> \o [i \in 1..Len(Nines) |-> Digit(Nines[i])]
               \o <<CR, LF, CR, LF>> \o Text("initialize"),
           \* a length shorter than the body, and one longer, at the end of the
           \* stream and before another frame
           <<Keyword, Space, Digit("1"), CR, LF, CR, LF>> \o Text("initialize"),
           <<Keyword, Space, Digit("3"), CR, LF, CR, LF>> \o Text("initialize"),
           <<Keyword, Space, Digit("3"), CR, LF, CR, LF>> \o Text("initialize")
               \o WellFramed("shutdown"),
           \* a second header line where the blank line should be
           <<Keyword, Space, Digit("2"), CR, LF, Letter, CR, LF, CR, LF>> \o Text("initialize"),
           \* a header line where the blank line should be, the body right
           \* after it; and the same with the blank line too, before a
           \* well-framed message
           <<Keyword, Space, Digit("2"), CR, LF, Letter, CR, LF>> \o Text("initialize"),
           <<Keyword, Space, Digit("2"), CR, LF, Letter, CR, LF, CR, LF>> \o Text("didOpen")
               \o WellFramed("initialize"),
           \* bare line feeds, a body followed by a line end, a stray line
           <<Keyword, Space, Digit("2"), LF, LF>> \o Text("didOpen"),
           <<Keyword, Space, Digit("4"), CR, LF, CR, LF>> \o Text("didOpen") \o <<CR, LF>>,
           <<Letter, CR, LF>> }

\* what the client has written before: nothing, a document opened, or a
\* header whose length is no number
Openings ==
    {<<>>,
     WellFramed("didOpen"),
     <<Keyword, Space, Letter, Letter, CR, LF, CR, LF>> \o Text("didOpen")}

Streams == {o \o Concat(fs) : o \in Openings, fs \in SeqsUpTo(FrameChoices, MaxFrames)}

\* the include directories of an engine whose headers declare AActor twice
TreeA ==
    (IncCore :> IncludeDir("yes",
        <<HeaderFile(TRUE, <<"UObject">>,
                     <<Decl("GetName", "G"), Decl("UObject", "U"), Decl("operator", "o"),
                       Decl("check", "c"), Decl("GetName", "G")>>)>>))
    @@ (IncCoreUObject :> IncludeDir("no", <<>>))
    @@ (IncEngine :> IncludeDir("yes",
        <<HeaderFile(TRUE, <<"AActor">>, <<Decl("BeginPlay", "B"), Decl("Tick", "T")>>),
          OtherFile,
          HeaderFile(FALSE, <<"APawn">>, <<Decl("GetController", "G")>>),
          HeaderFile(TRUE, <<"AActor", "FEmpty">>, <<Decl("Destroy", "D")>>)>>))
    @@ (IncEngineClasses :> IncludeDir("yes",
        <<HeaderFile(TRUE, <<"UEmpty">>, <<Decl("lower", "l")>>),
          EntryError,
          HeaderFile(TRUE, <<"APawn">>, <<Decl("GetController", "G")>>)>>))

\* an engine with an include directory that cannot be examined
TreeB ==
    (IncCore :> IncludeDir("yes",
        <<HeaderFile(TRUE, <<"UObject">>, <<Decl("GetName", "G")>>)>>))
    @@ (IncCoreUObject :> IncludeDir("error", <<>>))
    @@ (IncEngine :> IncludeDir("yes",
        <<HeaderFile(TRUE, <<"AActor">>, <<Decl("Tick", "T")>>)>>))

\* a host with the installations 5.1 and 5.2.1 under the launcher root
InstalledHost ==
    [roots |-> <<Root("yes", NotAnEngine(Launcher), TRUE,
                      <<DirEntry("yes", cPlain), DirEntry("yes", cUE51), DirEntry("yes", cUE52)>>)>>,
     env |-> <<>>]

\* where the server is started: the host, the project directory the analyzer
\* resolves the version from, and the header directories on the disk
Setup(w, dir, disk) == [world |-> w, projectDir |-> dir, disk |-> disk]

\* no installation and no descriptor (5.3.0 without an install path); the
\* project declares 5.2, which is installed; the project declares 6.0, which
\* is not
Setups ==
    { Setup(NoWorld, ProjectDir(TRUE, <<>>), TreeA),
      Setup(InstalledHost, ProjectDir(TRUE, <<UProject(<<"5", ".", "2">>)>>), TreeA),
      Setup(InstalledHost, ProjectDir(TRUE, <<UProject(<<"5", ".", "2">>)>>), TreeB),
      Setup(InstalledHost, ProjectDir(TRUE, <<UProject(<<"6", ".", "0">>)>>), TreeA) }

-----------------------------------------------------------------------------
(* The server at rest, for the scenarios that do not run it *)

NoFiles == <<>>

ServerIdle ==
    /\ engineVersion_ = DefaultVersion
    /\ headerTree = <<>>
    /\ stdin = <<>>
    /\ loopPc = "idle"
    /\ endCause = "none"
    /\ handled = <<>>
    /\ openFiles_ = NoFiles
    /\ stdout = <<>>
    /\ stderr = <<>>
    /\ dataMutex_ = "free"
    /\ current = EmptyMessage
    /\ scannedClasses_ = NoFiles
    /\ scanPc = "idle"
    /\ scanIdx = 1

-----------------------------------------------------------------------------
(* The calls of the completion scenario *)

\* the most calls made in one behaviour
MaxCalls == 2

\* the arguments of a call: of VersionCompatibleAutoComplete::getCompletions
\* (kind "direct": prefix and context) or of
\* UnrealEngineAnalyzer::getCompletions (kind "analyzer": text and position)
Input(kind, prefix, context, text, line, character) ==
    [kind |-> kind, prefix |-> prefix, context |-> context,
     text |-> text, line |-> line, character |-> character]

SynthPrefixes ==
    {<<>>, <<"U">>, <<"U", "C", "L">>, <<"u", "c", "l">>, <<"C", "L">>, <<"G", "e", "t">>, <<"C", "u", "s", "t", "o", "m">>, <<"B">>}

SynthContexts ==
    {<<>>, <<"A", "A", "c", "t", "o", "r", ":", ":">>, <<"x", " ", "=", " ", "A", "A", "c", "t", "o", "r", ":", ":">>, <<"U", "O", "b", "j", "e", "c", "t", ":", ":">>, <<"A", "M", "y", "A", "c", "t", "o", "r", ":", ":">>, <<"A", "A", "c", "t", "o", "r", ":">>,
     <<"(", "A", "A", "c", "t", "o", "r", ":", ":">>, <<"A", "A", "c", "t", "o", "r", " ", ":", ":">>,
     <<"O", "u", "t", "e", "r", ":", ":", "A", "A", "c", "t", "o", "r", ":", ":">>}

\* the texts and positions of the analyzer calls: a macro prefix, a member
\* access, an empty document
AnalyzerInputs ==
    {Input("analyzer", <<>>, <<>>, <<"U", "C", "L">>, 0, 3),
     Input("analyzer", <<>>, <<>>, <<"A", "A", "c", "t", "o", "r", ":", ":", "G", "e", "t">>, 0, 11),
     Input("analyzer", <<>>, <<>>, <<>>, 0, 0)}

SynthInputs ==
    {Input("direct", p, c, <<>>, 0, 0) : p \in SynthPrefixes, c \in SynthContexts}
        \cup AnalyzerInputs

SynthVersions ==
    {EngineVersionOf(4, 27, 0, <<>>), EngineVersionOf(5, 0, 0, <<>>),
     EngineVersionOf(5, 3, 0, <<>>), EngineVersionOf(6, 0, 0, <<>>)}

\* the assignments the scan makes during the scenario: a method the database
\* lacks, one it has, one listed twice
SynthWrites ==
    <<MapWrite("AActor", <<"CustomTick", "BeginPlay", "CustomTick">>),
      MapWrite("UObject", <<"GetName", "GetName">>)>>

\* a call: the prefix and context given to
\* VersionCompatibleAutoComplete::getCompletions, scannedClasses_ at the
\* call, and the items returned
Call(input, prefix, context, scanned, items) ==
    [input |-> input, prefix |-> prefix, context |-> context,
     scanned |-> scanned, items |-> items]

SynthIdle ==
    /\ sInput = Input("none", <<>>, <<>>, <<>>, 0, 0)
    /\ sVersion = DefaultVersion
    /\ sOrder = "up"
    /\ sScanned = NoFiles
    /\ sDatabase = apiDatabase_
    /\ sWritten = 0
    /\ sCalls = <<>>

-----------------------------------------------------------------------------
(* Detector scenario: one host, discovery and project resolution *)

InitDetector ==
    /\ world \in Worlds
    /\ projectDir = ProjectDir(TRUE, <<>>)
    /\ discovered = NoOutcome
    /\ resolved = NoResolved
    /\ detPc = "start"
    /\ ApiIdle
    /\ ServerIdle
    /\ SynthIdle

\* a call of findAllEngineVersions (main.cpp line 286)
DiscoverInstallations ==
    /\ detPc = "start"
    /\ \E f \in findAllEngineVersions(world) : discovered' = f
    /\ detPc' = "discovered"
    /\ UNCHANGED <<world, projectDir, resolved>>
    /\ UNCHANGED <<apiVars, serverVars, synthVars>>

\* a call of detectProjectEngineVersion (the constructor of
\* UnrealEngineAnalyzer, line 1072)
ResolveProjectVersion ==
    /\ detPc \in {"start", "discovered"}
    /\ \E dir \in ProjectDirs :
         /\ projectDir' = dir
         /\ \E r \in detectProjectEngineVersion(dir, world) : resolved' = r
    /\ detPc' = "resolved"
    /\ UNCHANGED <<world, discovered>>
    /\ UNCHANGED <<apiVars, serverVars, synthVars>>

NextDetector == DiscoverInstallations \/ ResolveProjectVersion

SpecDetector == InitDetector /\ [][NextDetector]_vars

-----------------------------------------------------------------------------
(* API scenario: one version, one query *)

InitAPI ==
    /\ qVersion \in QueryVersions
    /\ qResult = NoAnswer
    /\ apiPc = "ask"
    /\ DetIdle
    /\ ServerIdle
    /\ SynthIdle

QueryVersionKey ==
    /\ apiPc = "ask"
    /\ qResult' = Answer("getVersionKey", "", getVersionKey(qVersion), <<>>, "")
    /\ apiPc' = "answered"
    /\ UNCHANGED qVersion
    /\ UNCHANGED <<detVars, serverVars, synthVars>>

QueryClassMethods ==
    /\ apiPc = "ask"
    /\ \E c \in QueryClasses :
         qResult' = Answer("getClassMethods", c, getVersionKey(qVersion),
                           getClassMethods(c, qVersion), "")
    /\ apiPc' = "answered"
    /\ UNCHANGED qVersion
    /\ UNCHANGED <<detVars, serverVars, synthVars>>

QueryMacroTemplate ==
    /\ apiPc = "ask"
    /\ \E m \in QueryMacros :
         qResult' = Answer("getMacroTemplate", m, getVersionKey(qVersion), <<>>,
                           getMacroTemplate(m, qVersion))
    /\ apiPc' = "answered"
    /\ UNCHANGED qVersion
    /\ UNCHANGED <<detVars, serverVars, synthVars>>

QueryIncludePaths ==
    /\ apiPc = "ask"
    /\ qResult' = Answer("getIncludePaths", "", getVersionKey(qVersion),
                         getIncludePaths(qVersion), "")
    /\ apiPc' = "answered"
    /\ UNCHANGED qVersion
    /\ UNCHANGED <<detVars, serverVars, synthVars>>

NextAPI == QueryVersionKey \/ QueryClassMethods \/ QueryMacroTemplate \/ QueryIncludePaths

SpecAPI == InitAPI /\ [][NextAPI]_vars

-----------------------------------------------------------------------------
(* The server: the transport loop and the scan thread *)

\* the state when run() is entered: the analyzer is constructed with the
\* version detectProjectEngineVersion returned (line 1072), its scan thread
\* is started (line 989), nothing is read yet
Init ==
    /\ \E s \in Setups :
         /\ world = s.world
         /\ projectDir = s.projectDir
         /\ headerTree = s.disk
         /\ \E r \in detectProjectEngineVersion(s.projectDir, s.world) :
              /\ r.kind = "ok"
              /\ resolved = r
              /\ engineVersion_ = r.v
    /\ discovered = NoOutcome
    /\ detPc = "resolved"
    /\ stdin \in Streams
    /\ loopPc = "awaitHeader"
    /\ endCause = "none"
    /\ handled = <<>>
    /\ openFiles_ = NoFiles
    /\ stdout = <<>>
    /\ stderr = <<>>
    /\ dataMutex_ = "free"
    /\ current = EmptyMessage
    /\ scannedClasses_ = NoFiles
    /\ scanPc = "scanning"
    /\ scanIdx = 1
    /\ ApiIdle
    /\ SynthIdle

\* the process runs: main has not returned and nothing has ended it
Running == loopPc \in {"awaitHeader", "completing"}

\* std::getline fails at the end of the stream: run() returns, main logs
\* and returns 0 (main.cpp lines 345-346)
EndOfStream ==
    /\ loopPc = "awaitHeader"
    /\ NextOnStream(stdin).kind = "end"
    /\ loopPc' = "ended"
    /\ endCause' = "endOfStream"
    /\ stderr' = Append(stderr, "LSP Server shutting down")
    /\ UNCHANGED <<stdin, handled, openFiles_, stdout, dataMutex_, current>>
    /\ UNCHANGED <<engineVersion_, headerTree, scanVars, detVars, apiVars, synthVars>>

\* a line that does not start with the keyword is dropped (line 1250)
SkipLine ==
    /\ loopPc = "awaitHeader"
    /\ \E f \in {NextOnStream(stdin)} :
         /\ f.kind = "skip"
         /\ stdin' = f.rest
    /\ UNCHANGED <<loopPc, endCause, handled, openFiles_, stdout, stderr, dataMutex_, current>>
    /\ UNCHANGED <<engineVersion_, headerTree, scanVars, detVars, apiVars, synthVars>>

\* an exception of line 1251 or 1255 leaves run(): main catches it, logs
\* and returns 1 (main.cpp lines 335-339)
HeaderThrows ==
    /\ loopPc = "awaitHeader"
    /\ \E f \in {NextOnStream(stdin)} :
         /\ f.kind = "throws"
         /\ stdin' = f.rest
    /\ loopPc' = "ended"
    /\ endCause' = "exception"
    /\ stderr' = Append(stderr, "Fatal Error")
    /\ UNCHANGED <<handled, openFiles_, stdout, dataMutex_, current>>
    /\ UNCHANGED <<engineVersion_, headerTree, scanVars, detVars, apiVars, synthVars>>

\* the end of handleMessage for the frame f, parsed as p, whose handler left h
Handle(f, p, h) ==
    /\ stdin' = f.rest
    /\ openFiles_' = h.files
    /\ stdout' = stdout \o h.out
    /\ stderr' = stderr \o LogOf(p.logged, h.st)
    /\ handled' = Append(handled, Outcome(p.msg.method, p.logged, h.st))
    /\ loopPc' = IF h.st = "abort" THEN "ended" ELSE "awaitHeader"
    /\ endCause' = IF h.st = "abort" THEN "abort" ELSE endCause
    /\ UNCHANGED <<dataMutex_, current>>
    /\ UNCHANGED <<engineVersion_, headerTree, scanVars, detVars, apiVars, synthVars>>

\* handleMessage calls handleInitialize (line 1268)
HandleInitialize ==
    /\ loopPc = "awaitHeader"
    /\ \E f \in {NextOnStream(stdin)} :
         /\ f.kind = "frame"
         /\ \E p \in {parseMessage(f.message)} :
              /\ p.msg.method = "initialize"
              /\ Handle(f, p, handleInitialize(p.msg, openFiles_))

\* handleMessage calls handleTextDocumentDidOpen (line 1270)
HandleTextDocumentDidOpen ==
    /\ loopPc = "awaitHeader"
    /\ \E f \in {NextOnStream(stdin)} :
         /\ f.kind = "frame"
         /\ \E p \in {parseMessage(f.message)} :
              /\ p.msg.method = "textDocument/didOpen"
              /\ \E u \in Undefined :
                   Handle(f, p, handleTextDocumentDidOpen(p.msg, openFiles_, u))

\* handleMessage calls handleTextDocumentDidChange (line 1272)
HandleTextDocumentDidChange ==
    /\ loopPc = "awaitHeader"
    /\ \E f \in {NextOnStream(stdin)} :
         /\ f.kind = "frame"
         /\ \E p \in {parseMessage(f.message)} :
              /\ p.msg.method = "textDocument/didChange"
              /\ \E u \in Undefined :
                   Handle(f, p, handleTextDocumentDidChange(p.msg, openFiles_, u))

\* handleMessage calls handleWorkspaceExecuteCommand (line 1276)
HandleWorkspaceExecuteCommand ==
    /\ loopPc = "awaitHeader"
    /\ \E f \in {NextOnStream(stdin)} :
         /\ f.kind = "frame"
         /\ \E p \in {parseMessage(f.message)} :
              /\ p.msg.method = "workspace/executeCommand"
              /\ \E u \in Undefined :
                   Handle(f, p, handleWorkspaceExecuteCommand(p.msg, openFiles_, u))

\* a server that answers a method it does not know with a frame; not what
\* handleMessage does
HandleOtherWithError ==
    /\ loopPc = "awaitHeader"
    /\ \E f \in {NextOnStream(stdin)} :
         /\ f.kind = "frame"
         /\ \E p \in {parseMessage(f.message)} :
              /\ p.msg.method \notin {"initialize", "textDocument/didOpen",
                                      "textDocument/didChange", "textDocument/completion",
                                      "workspace/executeCommand"}
              /\ Handle(f, p, Handled("ok", openFiles_, <<Response(p.msg.id, JNull)>>))

Methods ==
    {"initialize", "textDocument/didOpen", "textDocument/didChange",
     "textDocument/completion", "workspace/executeCommand"}

\* a body that is no message, or a method without a handler: nothing is done
HandleOther ==
    /\ loopPc = "awaitHeader"
    /\ \E f \in {NextOnStream(stdin)} :
         /\ f.kind = "frame"
         /\ \E p \in {parseMessage(f.message)} :
              /\ p.msg.method \notin Methods
              /\ Handle(f, p, Handled("ok", openFiles_, <<>>))

\* handleTextDocumentCompletion where the analyzer is not called
HandleCompletionSkipped ==
    /\ loopPc = "awaitHeader"
    /\ \E f \in {NextOnStream(stdin)} :
         /\ f.kind = "frame"
         /\ \E p \in {parseMessage(f.message)} :
              /\ p.msg.method = "textDocument/completion"
              /\ \E u \in Undefined :
                   /\ ~CallsAnalyzer(p.msg, openFiles_, u)
                   /\ Handle(f, p, CompletionSkipped(p.msg, openFiles_, u))

\* handleTextDocumentCompletion up to the lock_guard of
\* UnrealEngineAnalyzer::getCompletions (line 1172)
CompletionLock ==
    /\ loopPc = "awaitHeader"
    /\ dataMutex_ = "free"
    /\ \E f \in {NextOnStream(stdin)} :
         /\ f.kind = "frame"
         /\ \E p \in {parseMessage(f.message)} :
              /\ p.msg.method = "textDocument/completion"
              /\ \E u \in Undefined : CallsAnalyzer(p.msg, openFiles_, u)
              /\ current' = p.msg
              /\ stdin' = f.rest
    /\ dataMutex_' = "loop"
    /\ loopPc' = "completing"
    /\ UNCHANGED <<endCause, handled, openFiles_, stdout, stderr>>
    /\ UNCHANGED <<engineVersion_, headerTree, scanVars, detVars, apiVars, synthVars>>

\* the items UnrealEngineAnalyzer::getCompletions returns (lines 1174-1193)
AnalyzerCompletions ==
    getCompletions(getCurrentWord(<<>>, 0, 0), detectUnrealContext(<<>>, 0, 0), engineVersion_,
                   scannedClasses_, sOrder)

\* the rest of the handler: the items are computed under the lock, the lock
\* is released, the response is sent (lines 1174-1341)
CompletionRespond ==
    /\ loopPc = "completing"
    /\ \E h \in {Respond(current, openFiles_, ItemsJson(AnalyzerCompletions.items))} :
         /\ stdout' = stdout \o h.out
         /\ stderr' = stderr \o LogOf(FALSE, h.st)
         /\ handled' = Append(handled, Outcome(current.method, FALSE, h.st))
    /\ dataMutex_' = "free"
    /\ current' = EmptyMessage
    /\ loopPc' = "awaitHeader"
    /\ UNCHANGED <<stdin, endCause, openFiles_>>
    /\ UNCHANGED <<engineVersion_, headerTree, scanVars, detVars, apiVars, synthVars>>

\* the scan thread reaches an assignment to scannedClasses_ (line 517); it
\* takes no lock
ScanBeginWrite ==
    /\ Running
    /\ scanPc = "scanning"
    /\ scanIdx <= Len(ScanWrites(engineVersion_, headerTree))
    /\ scanPc' = "writing"
    /\ UNCHANGED <<scanIdx, scannedClasses_>>
    /\ UNCHANGED <<engineVersion_, headerTree, loopVars, detVars, apiVars, synthVars>>

\* the assignment is done
ScanEndWrite ==
    /\ Running
    /\ scanPc = "writing"
    /\ \E w \in {ScanWrites(engineVersion_, headerTree)[scanIdx]} :
         scannedClasses_' = Store(scannedClasses_, w.class, w.methods)
    /\ scanIdx' = scanIdx + 1
    /\ scanPc' = "scanning"
    /\ UNCHANGED <<engineVersion_, headerTree, loopVars, detVars, apiVars, synthVars>>

\* scanEngineHeaders returns and the thread ends
ScanFinish ==
    /\ Running
    /\ scanPc = "scanning"
    /\ scanIdx > Len(ScanWrites(engineVersion_, headerTree))
    /\ ~ScanTerminates(engineVersion_, headerTree)
    /\ scanPc' = "done"
    /\ UNCHANGED <<scanIdx, scannedClasses_>>
    /\ UNCHANGED <<engineVersion_, headerTree, loopVars, detVars, apiVars, synthVars>>

\* an exception leaves the thread: std::terminate ends the process
ScanTerminate ==
    /\ Running
    /\ scanPc = "scanning"
    /\ scanIdx > Len(ScanWrites(engineVersion_, headerTree))
    /\ ScanTerminates(engineVersion_, headerTree)
    /\ scanPc' = "terminated"
    /\ loopPc' = "ended"
    /\ endCause' = "terminate"
    /\ UNCHANGED <<scanIdx, scannedClasses_>>
    /\ UNCHANGED <<stdin, handled, openFiles_, stdout, stderr, dataMutex_, current>>
    /\ UNCHANGED <<engineVersion_, headerTree, detVars, apiVars, synthVars>>

Next ==
    \/ EndOfStream
    \/ SkipLine
    \/ HeaderThrows
    \/ HandleInitialize
    \/ HandleTextDocumentDidOpen
    \/ HandleTextDocumentDidChange
    \/ HandleWorkspaceExecuteCommand
    \/ HandleOther
    \/ HandleCompletionSkipped
    \/ CompletionLock
    \/ CompletionRespond
    \/ ScanBeginWrite
    \/ ScanEndWrite
    \/ ScanFinish
    \/ ScanTerminate

Spec == Init /\ [][Next]_vars

\* a step of the detached thread of line 989
ScanStep == ScanBeginWrite \/ ScanEndWrite \/ ScanFinish \/ ScanTerminate

\* The thread moves on: while the process runs and the thread has not ended,
\* one of its four steps can be taken, and each of them, and no step of the
\* loop, changes scanPc
ScanAdvances ==
    /\ Running
    /\ scanPc \in {"scanning", "writing"}
    /\ scanPc' \in {"scanning", "writing", "done", "terminated"}

\* The server with a scan thread that is scheduled as long as the process
\* runs; the loop may wait for its client for ever
SpecFairScan == Init /\ [][Next]_vars /\ WF_scanPc(ScanAdvances)

-----------------------------------------------------------------------------
(* Completion scenario: calls of getCompletions while the scan goes on *)

InitSynth ==
    /\ sInput \in SynthInputs
    /\ sVersion \in SynthVersions
    /\ sOrder \in {"up", "down"}
    /\ sScanned = NoFiles
    /\ sDatabase = apiDatabase_
    /\ sWritten = 0
    /\ sCalls = <<>>
    /\ DetIdle
    /\ ApiIdle
    /\ ServerIdle

\* VersionCompatibleAutoComplete::getCompletions(prefix, context)
Synthesize ==
    /\ sInput.kind = "direct"
    /\ Len(sCalls) < MaxCalls
    /\ sCalls' = Append(sCalls,
                        Call(sInput, sInput.prefix, sInput.context, sScanned,
                             getCompletions(sInput.prefix, sInput.context, sVersion,
                                            sScanned, sOrder).items))
    /\ sScanned' = ScannedAfterCompletions(sScanned, sInput.context)
    /\ sDatabase' = DatabaseAfterCompletions(sDatabase, sInput.prefix, sInput.context, sVersion)
    /\ UNCHANGED <<sInput, sVersion, sOrder, sWritten>>
    /\ UNCHANGED <<detVars, apiVars, serverVars>>

\* UnrealEngineAnalyzer::getCompletions(uri, line, character, text) (lines
\* 1166-1194): the word and the context are asked of getCurrentWord and
\* detectUnrealContext
AnalyzerGetCompletions ==
    /\ sInput.kind = "analyzer"
    /\ Len(sCalls) < MaxCalls
    /\ \E currentWord \in {getCurrentWord(sInput.text, sInput.line, sInput.character)},
          context \in {detectUnrealContext(sInput.text, sInput.line, sInput.character)} :
         /\ sCalls' = Append(sCalls,
                             Call(sInput, currentWord, context, sScanned,
                                  getCompletions(currentWord, context, sVersion,
                                                 sScanned, sOrder).items))
         /\ sScanned' = ScannedAfterCompletions(sScanned, context)
         /\ sDatabase' = DatabaseAfterCompletions(sDatabase, currentWord, context, sVersion)
    /\ UNCHANGED <<sInput, sVersion, sOrder, sWritten>>
    /\ UNCHANGED <<detVars, apiVars, serverVars>>

\* the scan thread makes its next assignment (line 517)
ScannerRecords ==
    /\ sWritten < Len(SynthWrites)
    /\ \E w \in {SynthWrites[sWritten + 1]} :
         sScanned' = Store(sScanned, w.class, w.methods)
    /\ sWritten' = sWritten + 1
    /\ UNCHANGED <<sInput, sVersion, sOrder, sDatabase, sCalls>>
    /\ UNCHANGED <<detVars, apiVars, serverVars>>

NextSynth == Synthesize \/ AnalyzerGetCompletions \/ ScannerRecords

SpecSynth == InitSynth /\ [][NextSynth]_vars

-----------------------------------------------------------------------------
(* Properties of the scan thread and the request loop *)

\* the scan thread has not ended
ScanActive == scanPc \in {"scanning", "writing"}

\* the request loop is inside a completion request
CompletionActive == loopPc = "completing"

\* the scan thread is inside an assignment to scannedClasses_
ScanWritesMap == scanPc = "writing"

\* the request loop is inside a lookup in scannedClasses_
LoopReadsMap == loopPc = "completing" /\ AnalyzerCompletions.readsScanned

\* C1: while the scan and a completion request are both active, the scan
\* writes scannedClasses_ only while it holds the lock, the request loop
\* reads it only while it holds the same lock, and the write and the read
\* never happen at once.
C1_MapAccessUnderOneLock ==
    (ScanActive /\ CompletionActive)
        => (/\ ScanWritesMap => dataMutex_ = "scan"
            /\ LoopReadsMap => dataMutex_ = "loop"
            /\ ~(ScanWritesMap /\ LoopReadsMap))

\* the methods recorded for a class, as a set; none for a class not recorded
RecordedMethods(scanned, c) == SeqToSet(ScannedMethods(scanned, c))

\* C2: scannedClasses_ only grows: in every step the methods recorded for a
\* class before the step are still recorded for it after the step.
C2_ScannedSymbolsOnlyGrow ==
    [][\A c \in DOMAIN scannedClasses_ :
           RecordedMethods(scannedClasses_, c) \subseteq RecordedMethods(scannedClasses_', c)]_vars

-----------------------------------------------------------------------------
(* Properties of the transport loop *)

\* the loop is about to read a header line whose length is no number
NonNumericHeaderNext ==
    /\ loopPc = "awaitHeader"
    /\ getline(stdin).ok
    /\ IsHeaderLine(getline(stdin).line)
    /\ HeaderLength(getline(stdin).line).st = "invalid_argument"

\* C3: when the loop reads a header line whose length is no number, it logs,
\* dispatches no message, writes nothing, does not end, and awaits the next
\* header on what follows the line.
C3_NonNumericLengthIsSkipped ==
    [][(NonNumericHeaderNext /\ stdin' # stdin)
           => (/\ loopPc' = "awaitHeader"
               /\ stdin' = getline(stdin).rest
               /\ handled' = handled
               /\ stdout' = stdout
               /\ Len(stderr') > Len(stderr))]_vars

\* C4: when the handling of a well-framed message fails (the body is no
\* valid JSON, a parameter is missing or of the wrong type, a request has no
\* id), the loop does not end: it awaits the next header.
C4_FailedHandlingKeepsLoop ==
    [][(Len(handled') > Len(handled) /\ Failed(handled'[Len(handled')]))
           => loopPc' = "awaitHeader"]_vars

-----------------------------------------------------------------------------
(* Properties of project version resolution (detectProjectEngineVersion) *)

\* the project directory holds no descriptor (no .uproject file; a directory
\* that cannot be listed shows none)
NoDescriptor(dir) == \A i \in 1..Len(dir.files) : ~dir.files[i].isUProject

\* the directory holds a descriptor, and every descriptor satisfies P
EveryDescriptor(dir, P(_)) ==
    /\ \E i \in 1..Len(dir.files) : dir.files[i].isUProject
    /\ \A i \in 1..Len(dir.files) : dir.files[i].isUProject => P(dir.files[i])

LacksAssociation(file) == file.assoc = "absent"

LacksPattern(file) == file.assoc = "string" /\ AssocSearch(file.text) = 0

\* one of the three cases of the fallback
FallbackCase(dir) ==
    \/ NoDescriptor(dir)
    \/ EveryDescriptor(dir, LacksAssociation)
    \/ EveryDescriptor(dir, LacksPattern)

\* discovery returns at least one installation
SomeInstallation(w) == \E f \in findAllEngineVersions(w) : f.kind = "ok" /\ f.versions # <<>>

\* v is the first entry of a sequence discovery can return
IsNewestDiscovered(v, w) ==
    \E f \in findAllEngineVersions(w) : f.kind = "ok" /\ f.versions # <<>> /\ v = f.versions[1]

\* C5: in each of the three cases (no descriptor, a descriptor without the
\* association field, a descriptor whose association holds no <major>.<minor>
\* pattern), when discovery finds at least one installation, the resolved
\* version is the newest discovered installation.
C5_FallbackIsNewestDiscovered ==
    (detPc = "resolved" /\ FallbackCase(projectDir) /\ SomeInstallation(world))
        => (resolved.kind = "ok" /\ IsNewestDiscovered(resolved.v, world))

\* the first file of the directory is a descriptor whose association holds
\* the pattern, with numbers std::stoi accepts
DeclaresVersion(dir) ==
    /\ dir.listable /\ dir.files # <<>>
    /\ dir.files[1].isUProject /\ dir.files[1].assoc = "string"
    /\ AssocSearch(dir.files[1].text) # 0
    /\ ParsedVersion(dir.files[1].text, AssocSearch(dir.files[1].text)).ok

\* the version the descriptor declares
Declared(dir) == ParsedVersion(dir.files[1].text, AssocSearch(dir.files[1].text))

SameMajorMinor(v, n) == v.major = n.major /\ v.minor = n.minor

\* discovery returns an installation with the major and minor of n
InstallationOf(n, w) ==
    \E f \in findAllEngineVersions(w) :
        f.kind = "ok" /\ \E k \in 1..Len(f.versions) : SameMajorMinor(f.versions[k], n)

\* v carries the install path of a discovered installation with the major and
\* minor of n
PathOfInstallationOf(v, n, w) ==
    \E f \in findAllEngineVersions(w) :
        f.kind = "ok" /\ \E k \in 1..Len(f.versions) :
            SameMajorMinor(f.versions[k], n) /\ f.versions[k].installPath = v.installPath

ResolvedAsDeclared(r, n, w) ==
    r.kind = "ok" /\ SameMajorMinor(r.v, n) /\ PathOfInstallationOf(r.v, n, w)

\* C6: when the descriptor declares M.m[.p] and discovery finds an
\* installation with the same major and minor, the resolved version has
\* major M, minor m and the install path of a discovered installation whose
\* major and minor are M and m.
C6_DeclaredVersionGetsMatchingPath ==
    (detPc = "resolved" /\ DeclaresVersion(projectDir)
        /\ InstallationOf(Declared(projectDir), world))
        => ResolvedAsDeclared(resolved, Declared(projectDir), world)

\* the scenario of C6: installations 5.1 and 5.2.1 under the launcher root,
\* the association "5.2", and the result with the path of the 5.2 installation
C6_Witness ==
    /\ detPc = "resolved"
    /\ world.roots = <<Root("yes", NotAnEngine(Launcher), TRUE,
                            <<DirEntry("yes", cPlain), DirEntry("yes", cUE51), DirEntry("yes", cUE52)>>)>>
    /\ world.env = <<>>
    /\ projectDir = ProjectDir(TRUE, <<UProject(<<"5", ".", "2">>)>>)
    /\ resolved = Resolved("ok", EngineVersionOf(5, 2, 0, cUE52.path))

\* discovery returns, and returns nothing
NoInstallation(w) == \A f \in findAllEngineVersions(w) : f.kind = "ok" /\ f.versions = <<>>

\* C7: with no descriptor in the project directory and no installation
\* discovered, the resolved version is exactly 5.3.0 with an empty install
\* path.
C7_NothingKnownGivesDefault ==
    (detPc = "resolved" /\ NoDescriptor(projectDir) /\ NoInstallation(world))
        => (/\ resolved.kind = "ok"
            /\ resolved.v.major = 5 /\ resolved.v.minor = 3 /\ resolved.v.patch = 0
            /\ resolved.v.installPath = <<>>)

\* an empty project directory on a host whose install root holds no engine
C7_Witness ==
    /\ detPc = "resolved"
    /\ projectDir = ProjectDir(TRUE, <<>>)
    /\ world.roots # <<>> /\ NoInstallation(world)
    /\ resolved.kind = "ok" /\ resolved.v.major = 5 /\ resolved.v.installPath = <<>>

\* C8: resolving the project version returns a version and raises nothing,
\* whatever the project directory, the descriptor and the host hold.
C8_ResolveNeverRaises == detPc = "resolved" => resolved.kind = "ok"

-----------------------------------------------------------------------------
(* Properties of discovery (findAllEngineVersions) *)

\* C9: the sequence discovery returns is in descending order of (major,
\* minor, patch) and holds no two entries with the same (major, minor, patch).
C9_DescendingWithoutDuplicates ==
    (detPc = "discovered" /\ discovered.kind = "ok")
        => (/\ \A i \in 1..(Len(discovered.versions) - 1) :
                   VersionGeq(discovered.versions[i], discovered.versions[i + 1])
            /\ \A i, j \in 1..Len(discovered.versions) :
                   i # j => ~VersionEq(discovered.versions[i], discovered.versions[j]))

\* discovery pushed an installation twice and in ascending order, and
\* returned three distinct versions
C9_Witness ==
    /\ detPc = "discovered" /\ discovered.kind = "ok"
    /\ Len(discovered.versions) >= 3
    /\ \E i, j \in 1..Len(PushedVersions(world).versions) :
           /\ i < j
           /\ VersionEq(PushedVersions(world).versions[i], PushedVersions(world).versions[j])
    /\ \E i, j \in 1..Len(PushedVersions(world).versions) :
           /\ i < j
           /\ VersionLess(PushedVersions(world).versions[i], PushedVersions(world).versions[j])

-----------------------------------------------------------------------------
(* Properties of the API database (getVersionKey) *)

\* the buckets of generation 5 that initializeAPIDatabase fills, oldest first
Generation5Buckets == <<"5.0", "5.1", "5.2", "5.3", "5.4", "5.5">>

\* the newest of them
NewestBucket == Generation5Buckets[Len(Generation5Buckets)]

\* C10: for a version whose major is neither 4 nor 5, the bucket key is the
\* newest populated bucket of generation 5.
C10_OtherMajorGetsNewestBucket ==
    (apiPc = "answered" /\ qResult.op = "getVersionKey"
        /\ qVersion.major # 4 /\ qVersion.major # 5)
        => (qResult.key = NewestBucket /\ NewestBucket \in DOMAIN apiDatabase_)

\* a query for a version of major 6 has been answered
C10_Witness ==
    /\ apiPc = "answered" /\ qResult.op = "getVersionKey"
    /\ qVersion.major = 6

-----------------------------------------------------------------------------
(* Properties of the buckets of the API database *)

\* the buckets from the oldest to the newest
Buckets == <<"4.27">> \o Generation5Buckets

\* the place of a bucket in that order
BucketRank(k) == CHOOSE i \in 1..Len(Buckets) : Buckets[i] = k

\* the versions of the scenario that are older than v within v's generation
OlderInGeneration(v) ==
    {v1 \in QueryVersions : v1.major = v.major /\ VersionLess(v1, v)}

\* C11: the bucket key is monotonic within a major generation: the bucket of
\* an older version of the same major is never newer than the bucket
\* answered for the version asked.
C11_BucketKeyMonotonic ==
    (apiPc = "answered" /\ qResult.op = "getVersionKey")
        => \A v1 \in OlderInGeneration(qVersion) :
               BucketRank(getVersionKey(v1)) <= BucketRank(qResult.key)

\* the key of 5.3.0 has been answered, and an older version of generation 5
\* has an older bucket
C11_Witness ==
    /\ apiPc = "answered" /\ qResult.op = "getVersionKey"
    /\ qVersion.major = 5 /\ qVersion.minor = 3
    /\ \E v1 \in OlderInGeneration(qVersion) :
           BucketRank(getVersionKey(v1)) < BucketRank(qResult.key)

\* the versions of the scenario whose bucket is the one just before bucket k
InPreviousBucket(k) ==
    {v1 \in QueryVersions : BucketRank(getVersionKey(v1)) + 1 = BucketRank(k)}

\* the macro has a template for the version
MacroKnown(m, v) == getMacroTemplate(m, v) # ""

\* C12: nothing is removed from one bucket to the next: the methods of a
\* class, the include paths and the macro names answered for a version
\* contain those of every version of the bucket just before.
C12_CascadeNeverRemoves ==
    apiPc = "answered"
        => \A v1 \in InPreviousBucket(qResult.key) :
              /\ qResult.op = "getClassMethods"
                    => SeqToSet(getClassMethods(qResult.arg, v1)) \subseteq SeqToSet(qResult.list)
              /\ qResult.op = "getIncludePaths"
                    => SeqToSet(getIncludePaths(v1)) \subseteq SeqToSet(qResult.list)
              /\ qResult.op = "getMacroTemplate"
                    => (MacroKnown(qResult.arg, v1) => qResult.text # "")

\* the methods of AActor have been answered for 5.1, and they hold those of
\* 5.0 and one more
C12_Witness ==
    /\ apiPc = "answered" /\ qResult.op = "getClassMethods" /\ qResult.arg = "AActor"
    /\ qResult.key = "5.1"
    /\ SeqToSet(getClassMethods("AActor", EngineVersionOf(5, 0, 0, <<>>)))
           \subseteq SeqToSet(qResult.list)
    /\ "GetActorNameOrLabel" \in SeqToSet(qResult.list)

-----------------------------------------------------------------------------
(* Properties of the completion calls *)

\* p is a prefix of the characters, letter for letter
PrefixOf(p, chars) ==
    Len(p) <= Len(chars) /\ \A i \in 1..Len(p) : chars[i] = p[i]

\* the items of a kind (15 for a macro, 2 for a method), in their order
ItemsOfKind(items, kind) == SelectSeq(items, LAMBDA it : it.kind = kind)

Labels(items) == {items[i].label : i \in 1..Len(items)}

\* each label is on one item only
LabelsOnce(items) == Cardinality(Labels(items)) = Len(items)

DirectCalls == {i \in 1..Len(sCalls) : sCalls[i].input.kind = "direct"}

AnalyzerCalls == {i \in 1..Len(sCalls) : sCalls[i].input.kind = "analyzer"}

\* the characters that end a word
WordBreaks == {" ", "\t", ":", "(", ")", "=", ";", ".", ","}

\* the word that ends at the column: the letters between the last break
\* before the column and the column
WordBefore(text, character) ==
    SubSeq(text, Max({i \in 1..character : text[i] \in WordBreaks} \cup {0}) + 1, character)

\* C13: a completion call of the analyzer gives the synthesizer the word
\* that ends at the requested column of the text, and a context that holds
\* the scope marker where the text before the column holds one.
C13_WordAndContextFromText ==
    \A i \in AnalyzerCalls :
        /\ sCalls[i].prefix = WordBefore(sCalls[i].input.text, sCalls[i].input.character)
        /\ HasScopeMarker(SubSeq(sCalls[i].input.text, 1, sCalls[i].input.character))
              => HasScopeMarker(sCalls[i].context)

\* the names of the known macros that start with the prefix
MacrosWithPrefix(p) ==
    {Macros[k].name : k \in {n \in 1..Len(Macros) : PrefixOf(p, Macros[n].chars)}}

\* C15: the macro items of a call are the known macros that start with the
\* prefix, each once; a context without scope marker gives no member item;
\* prefix "UCL" without scope marker gives the one item UCLASS.
C15_MacrosByPrefix ==
    \A i \in DirectCalls :
        /\ Labels(ItemsOfKind(sCalls[i].items, 15)) = MacrosWithPrefix(sCalls[i].prefix)
        /\ LabelsOnce(ItemsOfKind(sCalls[i].items, 15))
        /\ ~HasScopeMarker(sCalls[i].context) => ItemsOfKind(sCalls[i].items, 2) = <<>>
        /\ (sCalls[i].prefix = <<"U", "C", "L">> /\ ~HasScopeMarker(sCalls[i].context))
              => (Len(sCalls[i].items) = 1 /\ sCalls[i].items[1].label = "UCLASS")

\* a call with prefix "UCL" and no scope marker has returned, and so has one
\* with the empty prefix and five macros
C15_Witness ==
    \E i \in DirectCalls :
        /\ sCalls[i].prefix = <<"U", "C", "L">>
        /\ ~HasScopeMarker(sCalls[i].context)
        /\ Labels(sCalls[i].items) = {"UCLASS"}

\* the methods the two sources hold for the class of the call's context
MethodsOfBoth(c) ==
    SeqToSet(getClassMethods(ClassNameOf(c.context, ScopePos(c.context)), sVersion))
        \cup SeqToSet(ScannedMethods(c.scanned, ClassNameOf(c.context, ScopePos(c.context))))

\* C16: for a context with a scope marker the member items are the methods
\* of the database and the scanned methods of the class that start with the
\* prefix, and each label is on one item only.
C16_MembersAreUnionOnce ==
    \A i \in DirectCalls :
        HasScopeMarker(sCalls[i].context)
            => /\ Labels(ItemsOfKind(sCalls[i].items, 2))
                    = {m \in MethodsOfBoth(sCalls[i]) : PrefixOf(sCalls[i].prefix, CharsOf(m))}
               /\ LabelsOnce(ItemsOfKind(sCalls[i].items, 2))

\* a call for "AActor::" with the empty prefix, made after the scan recorded
\* CustomTick (twice) and BeginPlay (which the database lists too), returned
\* both among the members
C16_Witness ==
    \E i \in DirectCalls :
        /\ sCalls[i].context = <<"A", "A", "c", "t", "o", "r", ":", ":">>
        /\ sCalls[i].prefix = <<>>
        /\ "AActor" \in DOMAIN sCalls[i].scanned
        /\ {"CustomTick", "BeginPlay"} \subseteq Labels(ItemsOfKind(sCalls[i].items, 2))

-----------------------------------------------------------------------------
(* Properties of the handlers *)

\* the message of the frame the loop is about to handle
Incoming == parseMessage(NextOnStream(stdin).message).msg

\* this step is handleMessage ending without failure for a message of the
\* method
HandledOk(method) ==
    /\ loopPc = "awaitHeader"
    /\ Len(handled') = Len(handled) + 1
    /\ handled'[Len(handled')] = Outcome(method, FALSE, "ok")

\* the changes of a list that carry the text of the whole document: a text
\* and no range
WholeTexts(changes) ==
    SelectSeq(changes, LAMBDA c : c.k = "object" /\ "text" \in DOMAIN c.o /\ "range" \notin DOMAIN c.o)

\* C14: after a didChange notification with content changes, the text stored
\* for the uri is the text of the last change that carries the whole
\* document; a change with a range never becomes the stored text.
C14_LatestWholeTextStored ==
    [][HandledOk("textDocument/didChange")
          => \A changes \in {Incoming.params.o.contentChanges.a} :
                 WholeTexts(changes) # <<>>
                     => openFiles_'[UriA] = WholeTexts(changes)[Len(WholeTexts(changes))].o.text.s]_vars

\* the JSON value of a frame written to the output
BodyOf(frame) == frame.body[1].v

\* the frame this step writes is the last of the output, after those
\* written before
WritesOneFrame ==
    /\ Len(stdout') = Len(stdout) + 1
    /\ SubSeq(stdout', 1, Len(stdout)) = stdout

\* the id of the request in hand, as it was received: that of the frame at
\* the front of the input, or that of the completion request the loop is
\* working on
ReceivedId ==
    IF loopPc = "completing" THEN JNum(current.id)
    ELSE JsonParse(NextOnStream(stdin).message).val.o.id

\* the request in hand carries an id
ReceivedWithId ==
    IF loopPc = "completing" THEN current.hasId
    ELSE /\ NextOnStream(stdin).kind = "frame"
         /\ JsonParse(NextOnStream(stdin).message).st = "ok"
         /\ JsonParse(NextOnStream(stdin).message).val.k = "object"
         /\ "id" \in DOMAIN JsonParse(NextOnStream(stdin).message).val.o

\* C20: a step that writes to the output writes one frame; the length it
\* declares is the byte length of its body; the body is an object with
\* jsonrpc, id and result; the id is the id of the request in hand, as
\* received.
C20_FramedResponseEchoesId ==
    [][stdout' # stdout
          => /\ WritesOneFrame
             /\ stdout'[Len(stdout')].length = TotalWidth(stdout'[Len(stdout')].body)
             /\ BodyOf(stdout'[Len(stdout')]).k = "object"
             /\ DOMAIN BodyOf(stdout'[Len(stdout')]).o = {"jsonrpc", "id", "result"}
             /\ ReceivedWithId
             /\ BodyOf(stdout'[Len(stdout')]).o.id = ReceivedId]_vars

\* the loop is working on a completion request that carries an id; the
\* handler has found its document among the open ones
CompletionInHand == loopPc = "completing" /\ current.hasId

\* this step writes the response to the request in hand
AnswersRequestInHand ==
    /\ WritesOneFrame
    /\ BodyOf(stdout'[Len(stdout')]).o.id = JNum(current.id)

\* C18: a completion request with an id for an open document gets its
\* response whatever the scan thread does: the next step of the server that
\* takes the loop out of the handler writes the response.
C18_CompletionAnsweredWhateverScanDoes ==
    [][CompletionInHand => (loopPc' = "completing" \/ AnswersRequestInHand)]_vars

\* the handler of a completion request never waits for the scan thread: the
\* response can be written in every state in which the request is in hand
CompletionNeverBlocked == CompletionInHand => ENABLED CompletionRespond

\* this step is handleMessage ending for a message whose method has no
\* handler
HandledUnrecognized ==
    /\ Len(handled') = Len(handled) + 1
    /\ handled'[Len(handled')].method \notin Methods

\* C19: handling a message whose method is not one of the five recognized
\* writes no frame and no error line, and leaves the open documents, the
\* scanned classes, the lock and the loop as they were.
C19_UnrecognizedMethodIgnored ==
    [][HandledUnrecognized
          => /\ stdout' = stdout
             /\ handled'[Len(handled')].parseError \/ stderr' = stderr
             /\ handled'[Len(handled')].st = "ok"
             /\ openFiles_' = openFiles_
             /\ loopPc' = loopPc /\ endCause' = endCause
             /\ UNCHANGED <<dataMutex_, current, engineVersion_, headerTree, scanVars>>]_vars

\* a shutdown request has been handled after a document was opened
C19_Witness ==
    /\ \E i \in 1..Len(handled) : handled[i] = Outcome("shutdown", FALSE, "ok")
    /\ UriA \in DOMAIN openFiles_
    /\ loopPc = "awaitHeader"

-----------------------------------------------------------------------------
(* Properties of workspace/executeCommand *)

\* the commands the server announces (lines 1292-1298), with the action of
\* each
CommandActions ==
    ("unreal.generateUClass" :> "generateUClass")
    @@ ("unreal.generateBlueprintFunction" :> "generateBlueprintFunction")
    @@ ("unreal.syncHeaderSource" :> "syncHeaderSource")
    @@ ("unreal.analyzeLogs" :> "analyzeLogs")
    @@ ("unreal.interpretErrors" :> "interpretErrors")

\* the loop is about to handle an executeCommand request that carries an id
\* and a command name
CommandRequestNext ==
    /\ loopPc = "awaitHeader"
    /\ NextOnStream(stdin).kind = "frame"
    /\ Incoming.method = "workspace/executeCommand"
    /\ Incoming.hasId
    /\ Incoming.params.k = "object"
    /\ "command" \in DOMAIN Incoming.params.o
    /\ Incoming.params.o.command.k = "string"

\* the name of that command
CommandNext == Incoming.params.o.command.s

\* this step writes one response, to the request at the front of the input,
\* with the result
AnswersIncomingWith(result) ==
    /\ WritesOneFrame
    /\ BodyOf(stdout'[Len(stdout')]).o.id = JNum(Incoming.id)
    /\ BodyOf(stdout'[Len(stdout')]).o.result = result

C22_UnknownCommandGetsEmptyResult ==
    [][(CommandRequestNext /\ CommandNext \notin DOMAIN CommandActions /\ stdin' # stdin)
          => /\ stdout' = stdout \/ AnswersIncomingWith(JStr(""))
             /\ openFiles_' = openFiles_
             /\ loopPc' = "awaitHeader"
             /\ handled'[Len(handled')] = Outcome("workspace/executeCommand", FALSE, "ok")
             /\ UNCHANGED <<stderr, dataMutex_, current, engineVersion_, headerTree, scanVars>>]_vars

\* the request 8 (a command the server does not know) has been answered
\* with the empty string
C22_Witness ==
    /\ loopPc = "awaitHeader"
    /\ \E i \in 1..Len(stdout) :
           /\ BodyOf(stdout[i]).o.id = JNum(8)
           /\ BodyOf(stdout[i]).o.result = JStr("")

-----------------------------------------------------------------------------
(* Properties of the order of the completion items *)

\* The order of two sort keys as strings. A key is written as its pieces, the
\* first being "0_" or "1_"; the digit 0 is before the digit 1, so keys that
\* differ in the first piece are ordered by it, whatever follows.
FirstPieceRank(key) == IF key[1] = "0_" THEN 0 ELSE 1

SortKeyLess(a, b) == FirstPieceRank(a) < FirstPieceRank(b)

\* C23: in the items of a call every macro item has a sort key smaller than
\* that of every member item and stands before every member item.
C23_MacrosRankedBeforeMembers ==
    \A c \in 1..Len(sCalls) :
        \A i \in 1..Len(sCalls[c].items) : \A j \in 1..Len(sCalls[c].items) :
            (sCalls[c].items[i].kind = 15 /\ sCalls[c].items[j].kind = 2)
                => /\ SortKeyLess(sCalls[c].items[i].sortText, sCalls[c].items[j].sortText)
                   /\ i < j

\* a call returned macro items and member items
C23_Witness ==
    \E c \in 1..Len(sCalls) :
        /\ Len(ItemsOfKind(sCalls[c].items, 15)) >= 2
        /\ Len(ItemsOfKind(sCalls[c].items, 2)) >= 2

-----------------------------------------------------------------------------
(* Properties of the separator line *)

\* a line that separates header and body: empty, or a carriage return only
IsBlankLine(line) == line = <<>> \/ line = <<CR>>

\* the loop is about to read a header line with a length, and the line after
\* it is not blank
NonBlankSeparatorNext ==
    /\ loopPc = "awaitHeader"
    /\ getline(stdin).ok
    /\ IsHeaderLine(getline(stdin).line)
    /\ HeaderLength(getline(stdin).line).st = "ok"
    /\ HeaderLength(getline(stdin).line).n >= 0
    /\ getline(getline(stdin).rest).ok
    /\ ~IsBlankLine(getline(getline(stdin).rest).line)

\* the positions of the stream at which a header line starts
HeaderStarts(in) ==
    {i \in 1..Len(in) : in[i] = Keyword /\ (i = 1 \/ in[i - 1].c = "lf")}

\* the stream from its first header line on, empty where it has none
FromNextHeader(in) ==
    IF HeaderStarts(in) = {} THEN <<>> ELSE SubSeq(in, Min(HeaderStarts(in)), Len(in))

\* C24: when the line after a length header is not blank, the loop hands no
\* message to handleMessage and writes nothing, and it goes on reading at
\* the next header line of the stream.
C24_NonBlankSeparatorIsMalformed ==
    [][(NonBlankSeparatorNext /\ stdin' # stdin)
          => /\ handled' = handled
             /\ stdout' = stdout
             /\ loopPc' = "awaitHeader"
             /\ FromNextHeader(stdin') = FromNextHeader(getline(stdin).rest)]_vars

-----------------------------------------------------------------------------
(* Properties of the walk of the header scan *)

\* the include directories of the engine that exist on the disk
ExistingIncludeDirs ==
    {p \in SeqToSet(getIncludePaths(engineVersion_)) : Exists(headerTree, p) = "yes"}

\* the classes a readable header of the directory declares with a method
ReadableClasses(dir) ==
    {w.class : w \in UNION {SeqToSet(scanHeaderFile(dir.entries[i])) :
                               i \in {k \in 1..Len(dir.entries) : dir.entries[k].kind = "header"}}}

\* C25: when the scan of an installed engine has ended, every class that a readable header under an
\* existing include directory declares with a method is recorded, also where
\* an entry of the directory could not be enumerated or a file not opened.
C25_UnreadableEntryOnlySkipped ==
    (scanPc = "done" /\ engineVersion_.installPath # <<>>)
        => \A p \in ExistingIncludeDirs :
               ReadableClasses(headerTree[p]) \subseteq DOMAIN scannedClasses_

-----------------------------------------------------------------------------
(* Properties of the walk of discovery *)

\* the install roots of the host that exist
ExistingRoots(w) == {w.roots[i] : i \in {k \in 1..Len(w.roots) : w.roots[k].exists = "yes"}}

\* the subdirectories of a root
Subdirectories(r) ==
    {r.entries[i].cand : i \in {k \in 1..Len(r.entries) : r.entries[k].isDir = "yes"}}

\* the candidate is a valid installation: detectEngineVersion returns a
\* version with a major above 0 for it
ValidInstallation(c) == Pushable(detectEngineVersion(c))

\* The directories discovery is to examine whatever fails elsewhere: the
\* existing roots, the subdirectories of the roots that can be listed and
\* are no installation themselves, and the environment overrides
ToExamine(w) ==
    {r.self : r \in ExistingRoots(w)}
    \cup UNION {Subdirectories(r) :
                   r \in {x \in ExistingRoots(w) : x.listable /\ ~ValidInstallation(x.self)}}
    \cup SeqToSet(w.env)

\* the version of the candidate is among those returned
Returned(c, versions) ==
    \E i \in 1..Len(versions) : VersionEq(versions[i], detectEngineVersion(c).v)

\* C26: discovery raises nothing, and returns the version of every valid
\* installation among the directories it is to examine, whatever access
\* fails on another root or subdirectory.
C26_AccessFailureSkipsOneEntry ==
    detPc = "discovered"
        => /\ discovered.kind = "ok"
           /\ \A c \in ToExamine(world) :
                  ValidInstallation(c) => Returned(c, discovered.versions)

\* the root can be walked: it can be listed and no entry fails
Walkable(r) == r.listable /\ \A i \in 1..Len(r.entries) : r.entries[i].isDir # "error"

\* C27: discovery returns the version of every valid installation that is an
\* existing root or a subdirectory of an existing root, also of a
\* subdirectory of a root that is a valid installation itself (roots where
\* no access fails).
C27_RootAndSubdirectoriesExamined ==
    (detPc = "discovered" /\ discovered.kind = "ok")
        => \A r \in {x \in ExistingRoots(world) : Walkable(x)} :
               \A c \in Subdirectories(r) \cup {r.self} :
                   ValidInstallation(c) => Returned(c, discovered.versions)

-----------------------------------------------------------------------------
(* Properties of the version of a candidate (detectEngineVersion) *)

\* every directory of the host that discovery may hand to detectEngineVersion
AllCandidates(w) ==
    {w.roots[i].self : i \in 1..Len(w.roots)}
    \cup UNION {{w.roots[i].entries[k].cand : k \in 1..Len(w.roots[i].entries)} :
                   i \in 1..Len(w.roots)}
    \cup SeqToSet(w.env)

\* the descriptor is present and can be read as a whole
WholeDescriptor(b) ==
    /\ b.present /\ b.parsable
    /\ b.major.k # "bad" /\ b.minor.k # "bad" /\ b.patch.k # "bad"

\* the version all of whose numbers are those of the descriptor
FromDescriptor(c) ==
    EngineVersionOf(FieldValue(c.build.major), FieldValue(c.build.minor),
                    FieldValue(c.build.patch), c.path)

\* the version all of whose numbers are those of the pattern in the path
FromPathName(c) ==
    EngineVersionOf(ParsedVersion(c.path, PathSearch(c.path)).major,
                    ParsedVersion(c.path, PathSearch(c.path)).minor,
                    ParsedVersion(c.path, PathSearch(c.path)).patch, c.path)

\* v is the version of the candidate from one source alone
FromOneSource(v, c) ==
    /\ c.path = v.installPath
    /\ c.engine = "yes"
    /\ IF WholeDescriptor(c.build) THEN v = FromDescriptor(c)
       ELSE PathSearch(c.path) # 0 /\ v = FromPathName(c)

\* C28: every version discovery returns is that of a candidate with the
\* engine subtree, with all numbers from the version descriptor where it is
\* present and parsable, and all numbers from the pattern in the path name
\* otherwise.
C28_VersionFromOneSource ==
    (detPc = "discovered" /\ discovered.kind = "ok")
        => \A i \in 1..Len(discovered.versions) :
               \E c \in AllCandidates(world) : FromOneSource(discovered.versions[i], c)

-----------------------------------------------------------------------------
(* Properties of the choice of the bucket *)

\* the minor of the i-th bucket of generation 5
BucketMinor(i) == i - 1

\* the bucket of generation 5 with the highest minor not above m, the oldest
\* bucket where every minor is above m
HighestBucketNotAbove(m) ==
    Generation5Buckets[Max({i \in 1..Len(Generation5Buckets) : BucketMinor(i) <= m} \cup {1})]

\* C29: the key of a version of major 4 is 4.27 whatever minor and patch are;
\* the key of a version of major 5 is the filled bucket with the highest
\* minor not above the minor asked for, 5.0 below all of them and 5.5 above;
\* the key of every version is a filled bucket.
C29_BucketKeyIsClampedFloor ==
    (apiPc = "answered" /\ qResult.op = "getVersionKey")
        => /\ qVersion.major = 4 => qResult.key = "4.27"
           /\ qVersion.major = 5 => qResult.key = HighestBucketNotAbove(qVersion.minor)
           /\ qVersion.major = 5 /\ qVersion.minor < 0 => qResult.key = "5.0"
           /\ qVersion.major = 5 /\ qVersion.minor > 5 => qResult.key = "5.5"
           /\ qResult.key \in DOMAIN apiDatabase_

\* the key of a version 5.6 has been answered
C29_Witness ==
    /\ apiPc = "answered" /\ qResult.op = "getVersionKey"
    /\ qVersion.major = 5 /\ qVersion.minor = 6 /\ qResult.key = "5.5"

-----------------------------------------------------------------------------
(* Properties of the class looked up *)

\* contexts in which the identifier before the scope marker is AActor
ContextsOfAActor ==
    {<<"x", " ", "=", " ", "A", "A", "c", "t", "o", "r", ":", ":">>,
     <<"(", "A", "A", "c", "t", "o", "r", ":", ":">>,
     <<"A", "A", "c", "t", "o", "r", " ", ":", ":">>,
     <<"O", "u", "t", "e", "r", ":", ":", "A", "A", "c", "t", "o", "r", ":", ":">>}

\* the methods the two sources hold for AActor
MethodsOfAActor(scanned) ==
    SeqToSet(getClassMethods("AActor", sVersion)) \cup SeqToSet(ScannedMethods(scanned, "AActor"))

\* C30: for the contexts "x = AActor::", "(AActor::", "AActor ::" and
\* "Outer::AActor::" the class looked up is AActor: the member items are the
\* methods of AActor that start with the prefix, each named as a member of
\* AActor.
C30_ClassBeforeMarkerLookedUp ==
    \A i \in DirectCalls :
        sCalls[i].context \in ContextsOfAActor
            => /\ Labels(ItemsOfKind(sCalls[i].items, 2))
                    = {m \in MethodsOfAActor(sCalls[i].scanned) :
                          PrefixOf(sCalls[i].prefix, CharsOf(m))}
               /\ \A k \in 1..Len(sCalls[i].items) :
                      sCalls[i].items[k].kind = 2 => sCalls[i].items[k].detail[1] = "AActor"

-----------------------------------------------------------------------------
(* Properties of the recorded methods *)

\* the names the method pattern captures somewhere under the install path
CapturedDecls ==
    UNION {UNION {SeqToSet(headerTree[p].entries[k].decls) :
                     k \in 1..Len(headerTree[p].entries)} : p \in DOMAIN headerTree}

\* the first characters of the captured names equal to m
FirstCharacters(m) == {d.first : d \in {e \in CapturedDecls : e.name = m}}

\* C31: in every reachable state, every method name recorded for a class c
\* begins with an uppercase letter, is different from c, does not begin with
\* the destructor sigil and is not the word operator.
C31_RecordedMethodsPassFilter ==
    \A c \in DOMAIN scannedClasses_ :
        \A i \in 1..Len(scannedClasses_[c]) :
            /\ FirstCharacters(scannedClasses_[c][i]) # {}
            /\ FirstCharacters(scannedClasses_[c][i]) \subseteq UpperCase
            /\ "~" \notin FirstCharacters(scannedClasses_[c][i])
            /\ scannedClasses_[c][i] # c
            /\ scannedClasses_[c][i] # "operator"

\* UObject is recorded from a header that also declares its constructor, an
\* operator and a lowercase function
C31_Witness ==
    /\ headerTree = TreeA
    /\ "UObject" \in DOMAIN scannedClasses_
    /\ scannedClasses_["UObject"] = <<"GetName", "GetName">>

-----------------------------------------------------------------------------
(* Properties of the macro templates *)

\* C37: for every engine version and every known macro, the macro item of a
\* completion carries an insertText that is not empty and equals
\* getMacroTemplate(macro, version), also for a macro the selected bucket
\* does not define, such as UENUM under 4.27.
C37_MacroItemCarriesTemplate ==
    \A i \in DirectCalls :
        \A k \in 1..Len(sCalls[i].items) :
            sCalls[i].items[k].kind = 15
                => /\ sCalls[i].items[k].insertText # ""
                   /\ sCalls[i].items[k].insertText
                          = getMacroTemplate(sCalls[i].items[k].label, sVersion)

-----------------------------------------------------------------------------
(* Properties of what a completion call leaves behind *)

\* a step in which getCompletions is called
CompletionCalled == sCalls' # sCalls

\* the class the call in hand looks up is neither in the database bucket of
\* the version nor among the scanned classes, and UENUM is asked of a bucket
\* that does not define it
LooksUpUnknown(call) ==
    /\ HasScopeMarker(call.context)
    /\ ClassNameOf(call.context, ScopePos(call.context)) \notin DOMAIN call.scanned
    /\ ClassNameOf(call.context, ScopePos(call.context))
           \notin DOMAIN apiDatabase_[getVersionKey(sVersion)].classes
    /\ call.prefix = <<>>
    /\ "UENUM" \notin DOMAIN apiDatabase_[getVersionKey(sVersion)].macros

\* C33: a completion call has no side effects: it leaves scannedClasses_,
\* the buckets of apiDatabase_, openFiles_ and the engine version as they
\* were, and adds no key to any of the maps, also where the class or the macro
\* looked up is unknown.
C33_CompletionCallChangesNothing ==
    [][CompletionCalled
          => /\ sScanned' = sScanned
             /\ DOMAIN sScanned' = DOMAIN sScanned
             /\ sDatabase' = sDatabase
             /\ \A k \in DOMAIN sDatabase' :
                    /\ DOMAIN sDatabase'[k].classes = DOMAIN apiDatabase_[k].classes
                    /\ DOMAIN sDatabase'[k].macros = DOMAIN apiDatabase_[k].macros
             /\ openFiles_' = openFiles_
             /\ sVersion' = sVersion
             /\ engineVersion_' = engineVersion_]_vars

\* a call has looked up a class and a macro that are unknown, while the scan
\* had recorded a class
C33_Witness ==
    \E i \in DOMAIN sCalls :
        /\ LooksUpUnknown(sCalls[i])
        /\ sCalls[i].scanned # NoFiles

-----------------------------------------------------------------------------
(* Properties of the completion handler *)

\* the frame at the front of the input is a completion request with an id
\* whose uri and position are read without failure
CompletionRequestNext ==
    /\ loopPc = "awaitHeader"
    /\ NextOnStream(stdin).kind = "frame"
    /\ Incoming.method = "textDocument/completion"
    /\ Incoming.hasId
    /\ \A u \in Undefined : CompletionParams(Incoming, u).st = "ok"

\* the uri of that request
UriNext == CompletionParams(Incoming, CHOOSE u \in Undefined : TRUE).val.s

\* the uri of the request the handler is working on
UriInHand == CompletionParams(current, CHOOSE u \in Undefined : TRUE).val.s

-----------------------------------------------------------------------------
(* Properties of the open documents *)

\* the message in hand names a document: params.textDocument.uri is a string
NamesDocument(msg) ==
    /\ msg.params.k = "object"
    /\ "textDocument" \in DOMAIN msg.params.o
    /\ msg.params.o.textDocument.k = "object"
    /\ "uri" \in DOMAIN msg.params.o.textDocument.o
    /\ msg.params.o.textDocument.o.uri.k = "string"

\* the entries of openFiles_ other than that of the uri are as they were
OnlyEntryChanged(uri) ==
    \A x \in DOMAIN openFiles_' \ {uri} :
        x \in DOMAIN openFiles_ /\ openFiles_'[x] = openFiles_[x]

\* the content changes of a didChange notification that names them
ChangesNext == Incoming.params.o.contentChanges

\* C35: openFiles_ is modified only by the handling of a didOpen or didChange
\* notification and only at the entry of its uri; initialize, completion and
\* executeCommand leave every entry as it was, no entry is ever removed, and
\* a didChange notification with an empty change list or whose handler fails
\* leaves openFiles_ unchanged.
C35_OnlyNotifiedEntryChanges ==
    [][/\ DOMAIN openFiles_ \subseteq DOMAIN openFiles_'
       /\ openFiles_' # openFiles_
            => /\ loopPc = "awaitHeader"
               /\ Incoming.method \in {"textDocument/didOpen", "textDocument/didChange"}
               /\ handled'[Len(handled')].st = "ok"
               /\ \E k \in DOMAIN openFiles_' : OnlyEntryChanged(k)
               /\ NamesDocument(Incoming)
                    => OnlyEntryChanged(Incoming.params.o.textDocument.o.uri.s)
               /\ (Incoming.method = "textDocument/didChange"
                     /\ "contentChanges" \in DOMAIN Incoming.params.o
                     /\ ChangesNext.k = "array")
                    => ChangesNext.a # <<>>]_vars

\* a didChange notification whose first change has no text has been handled
\* for a uri that is not open, while another document is open
C35_Witness ==
    /\ handled # <<>>
    /\ handled[Len(handled)] = Outcome("textDocument/didChange", FALSE, "throws")
    /\ DOMAIN openFiles_ = {UriA}

-----------------------------------------------------------------------------
(* Properties of a declared version that is not installed *)

\* the project declares a version, and discovery returns without an
\* installation of its major and minor
DeclaredNotInstalled ==
    /\ DeclaresVersion(projectDir)
    /\ ~InstallationOf(Declared(projectDir), world)
    /\ \A f \in findAllEngineVersions(world) : f.kind = "ok"

\* the contexts "AActor::", "UObject::" and "APawn::"
ScannedClassContexts ==
    {<<"A", "A", "c", "t", "o", "r", ":", ":">>,
     <<"U", "O", "b", "j", "e", "c", "t", ":", ":">>,
     <<"A", "P", "a", "w", "n", ":", ":">>}

\* C36: where the project declares a version of which discovery finds no
\* installation with the same major and minor, the version resolved is the
\* declared one with an empty install path and not a discovered installation;
\* the scan then adds nothing, scannedClasses_ is empty in every state, and
\* the member items of a completion are the methods of the database alone.
C36_UninstalledVersionScansNothing ==
    DeclaredNotInstalled
        => /\ engineVersion_ = EngineVersionOf(Declared(projectDir).major,
                                               Declared(projectDir).minor,
                                               Declared(projectDir).patch, <<>>)
           /\ \A f \in findAllEngineVersions(world) :
                  \A k \in 1..Len(f.versions) : engineVersion_ # f.versions[k]
           /\ scannedClasses_ = NoFiles
           /\ \A c \in ScannedClassContexts :
                  Labels(getMemberCompletions(c, <<>>, engineVersion_, scannedClasses_, sOrder))
                      = SeqToSet(getClassMethods(ClassNameOf(c, ScopePos(c)), engineVersion_))

\* the project declares 6.0 on the host with 5.1 and 5.2.1, the disk holds
\* headers of AActor and UObject, and the scan thread has finished
C36_Witness ==
    /\ DeclaredNotInstalled
    /\ world = InstalledHost
    /\ engineVersion_.major = 6
    /\ headerTree = TreeA
    /\ scanPc = "done"
    /\ stdout # <<>>

-----------------------------------------------------------------------------
(* Properties of the scan thread *)

\* the process was ended by the loop: the input ended, or an exception or an
\* abort left run()
EndedByLoop == endCause \in {"endOfStream", "exception", "abort"}

\* fs::exists was asked of every include path of the version
EveryIncludePathVisited ==
    ReachedPaths(getIncludePaths(engineVersion_), headerTree) = getIncludePaths(engineVersion_)

\* the steps that change scanPc are the steps of the scan thread, taken
\* while the process runs and the thread has not ended
ScanAdvancesIsScanStep ==
    [][(scanPc' # scanPc) <=> (ScanStep /\ ScanAdvances)]_vars

\* C32: the scan thread is started once and never restarted or cancelled;
\* scheduled fairly over a finite header tree it finishes, unless the process
\* exits first, and it finishes only after every include path of the resolved
\* version has been visited, whatever the loop handles meanwhile.
C32_ScanRunsOnceToTheEnd ==
    /\ [][scanPc = "done" => scanPc' = "done"]_vars
    /\ []((scanPc = "done" /\ engineVersion_.installPath # <<>>) => EveryIncludePathVisited)
    /\ <>(scanPc = "done" \/ EndedByLoop)

=============================================================================
